---------------------------- MODULE Spec2Model ----------------------------
(***************************************************************************)
(* A model of the cx-schema validators: ModuleValidator (src/src/          *)
(* validator.ts) and WorkflowValidator (src/unnamed/part_002).             *)
(*                                                                         *)
(* A parsed YAML value is a record [k, s, e]: k is the JavaScript kind of  *)
(* the value, s the payload of a scalar, e the ordered list of <<key,      *)
(* value>> entries of a mapping or of a sequence (a sequence's keys are    *)
(* its indices "0", "1", ..., as Object.entries sees them).                *)
(***************************************************************************)
EXTENDS Integers, Sequences, FiniteSets, TLC

VARIABLES
    validator,        \* "module" (ModuleValidator) or "workflow" (WorkflowValidator)
    filePath,         \* the argument of validateModule / validateWorkflow
    fileStatus,       \* what the file system and the YAML parser do with filePath
    doc,              \* the value yaml.load returns (moduleData / workflowData)
    schemas,          \* this.schemas, registered with Ajv: key -> "ok", or "broken"
                      \* for a schema whose compilation throws (an unresolvable $ref)
    includeWarnings,  \* this.options.includeWarnings
    pc,               \* the position of the call in validateModule / validateWorkflow
    acc,              \* the call's accumulators: [e |-> errors, w |-> warnings, t |-> thrown]
    result,           \* the ValidationResult the call resolved with (NoResult before)
    callNo,           \* 1 for the first validation of the document, 2 for a second one
    previous,         \* the result and the option of the first validation, for the second
    cli,              \* the cx-validate process: its arguments and the locals of main
    concurrent        \* two calls in flight on one validator, and the validate.errors
                      \* property of the compiled form schema they share

vars == <<validator, filePath, fileStatus, doc, schemas, includeWarnings, pc, acc, result,
          callNo, previous, cli, concurrent>>

-----------------------------------------------------------------------------
(* Parsed values *)

V(k, s, e) == [k |-> k, s |-> s, e |-> e]

Undef == V("undef", "", <<>>)
Null == V("null", "", <<>>)
Str(s) == V("str", s, <<>>)
Num(s) == V("num", s, <<>>)
Bool(s) == V("bool", s, <<>>)

\* A mapping from its entries in document order; an entry whose value is Undef is
\* a key the document does not have.
Obj(entries) == V("obj", "", SelectSeq(entries, LAMBDA p : p[2] # Undef))

\* A sequence from its elements.
Arr(elems) == V("seq", "", [i \in 1..Len(elems) |-> <<ToString(i - 1), elems[i]>>])

\* !v
Truthy(v) ==
    CASE v.k \in {"obj", "seq"} -> TRUE
      [] v.k = "str" -> v.s # ""
      [] v.k = "num" -> v.s # "0"
      [] v.k = "bool" -> v.s = "true"
      [] OTHER -> FALSE

\* v && typeof v === 'object'
IsObject(v) == v.k \in {"obj", "seq"}

\* Array.isArray(v)
IsArray(v) == v.k = "seq"

\* A property read of null or undefined throws a TypeError.
Nullish(v) == v.k \in {"null", "undef"}

\* key in v, for an object v
Has(v, key) == \E i \in 1..Len(v.e) : v.e[i][1] = key

\* v.key, for a v that is not nullish: undefined unless v has the key
Get(v, key) ==
    IF Has(v, key)
    THEN v.e[CHOOSE i \in 1..Len(v.e) : v.e[i][1] = key][2]
    ELSE Undef

\* The elements of a collection of the document, <<>> unless it is a sequence.
Elements(v, key) == IF IsArray(Get(v, key)) THEN Get(v, key).e ELSE <<>>

\* `${v}` for the scalars a type tag can be
JsToString(v) ==
    CASE v.k \in {"str", "num", "bool"} -> v.s
      [] v.k = "obj" -> "[object Object]"
      [] OTHER -> ""

-----------------------------------------------------------------------------
(* Accumulators *)

\* s counts the failures the catch of validateNestedComponent has swallowed.
EmptyAcc == [e |-> <<>>, w |-> <<>>, t |-> FALSE, s |-> 0]

\* errors.push({type, path, ...})
PushError(a, type, path, message) ==
    [a EXCEPT !.e = Append(@, [type |-> type, path |-> path, message |-> message])]

\* warnings.push({type, path, ...})
PushWarning(a, type, path, message) ==
    [a EXCEPT !.w = Append(@, [type |-> type, path |-> path, message |-> message])]

\* An exception leaves the accumulators as they are and unwinds to the catch.
Throw(a) == [a EXCEPT !.t = TRUE]

\* Swallow with the catch of validateNestedComponent rethrowing.
SwallowRethrows(a) == [a EXCEPT !.t = TRUE]

\* catch (error: any) { }
Swallow(a) == [a EXCEPT !.s = @ + 1]

-----------------------------------------------------------------------------
(* The schema evaluator (Ajv) *)

\* A segment of an evaluator instance location: a property name or an index.
FieldSeg(name) == [t |-> "f", f |-> name, i |-> 0]
IndexSeg(n) == [t |-> "i", f |-> "", i |-> n]

SegText(seg) == IF seg.t = "i" THEN ToString(seg.i) ELSE seg.f

\* error.instancePath: the JSON pointer of the segments, "" for the evaluated value
RECURSIVE InstancePath(_)
InstancePath(L) ==
    IF L = <<>> THEN "" ELSE "/" \o SegText(Head(L)) \o InstancePath(Tail(L))

\* error.instancePath.slice(1)
RECURSIVE InstancePathSlice1(_)
InstancePathSlice1(L) ==
    IF L = <<>> THEN ""
    ELSE IF Len(L) = 1 THEN SegText(Head(L))
    ELSE SegText(Head(L)) \o "/" \o InstancePathSlice1(Tail(L))

\* The schema store of the modelled ModuleValidator: the main schemas.json,
\* "form" with a schema that compiles, "broken" with one whose compilation
\* throws. Every other type has none.
ModuleSchemas ==
    ("schemas.json" :> "ok") @@ ("components/form.json" :> "ok")
    @@ ("components/broken.json" :> "broken")

\* The violations of components/form.json by children: every child is an object.
RECURSIVE FormChildrenErrors(_, _)
FormChildrenErrors(children, i) ==
    IF i > Len(children.e) THEN <<>>
    ELSE (IF children.e[i][2].k # "obj"
          THEN << <<FieldSeg("children"), IndexSeg(i - 1)>> >>
          ELSE <<>>) \o FormChildrenErrors(children, i + 1)

\* validate.errors after validate(node) for components/form.json, as instance
\* locations: name is required, props is an object, props.title a string, and
\* children a sequence of objects.
FormErrors(node) ==
    (IF ~Has(node, "name") THEN << <<>> >> ELSE <<>>)
    \o (IF Has(node, "props") /\ Get(node, "props").k # "obj"
        THEN << <<FieldSeg("props")>> >> ELSE <<>>)
    \o (IF Get(node, "props").k = "obj" /\ Has(Get(node, "props"), "title")
           /\ Get(Get(node, "props"), "title").k # "str"
        THEN << <<FieldSeg("props"), FieldSeg("title")>> >> ELSE <<>>)
    \o (IF IsArray(Get(node, "children"))
        THEN FormChildrenErrors(Get(node, "children"), 1) ELSE <<>>)

\* The violations of workflow.json by activities: every activity is an object.
RECURSIVE WorkflowActivitiesErrors(_, _)
WorkflowActivitiesErrors(activities, i) ==
    IF i > Len(activities.e) THEN <<>>
    ELSE (IF activities.e[i][2].k # "obj"
          THEN << <<FieldSeg("activities"), IndexSeg(i - 1)>> >>
          ELSE <<>>) \o WorkflowActivitiesErrors(activities, i + 1)

\* validate.errors after validate(workflowData) for workflow.json: the document
\* is an object, workflow and activities are required, workflow is an object
\* with a workflowId, activities a sequence of objects.
WorkflowErrors(data) ==
    IF data.k # "obj" THEN << <<>> >>
    ELSE (IF ~Has(data, "workflow") THEN << <<>> >> ELSE <<>>)
      \o (IF ~Has(data, "activities") THEN << <<>> >> ELSE <<>>)
      \o (IF Has(data, "workflow")
             /\ (Get(data, "workflow").k # "obj" \/ ~Has(Get(data, "workflow"), "workflowId"))
          THEN << <<FieldSeg("workflow")>> >> ELSE <<>>)
      \o (IF IsArray(Get(data, "activities"))
          THEN WorkflowActivitiesErrors(Get(data, "activities"), 1) ELSE <<>>)

\* The violations of the main schemas.json by a module document: the document
\* is an object and `module` is required.
MainSchemaErrors(data) ==
    IF data.k # "obj" \/ ~Has(data, "module") THEN << <<>> >> ELSE <<>>

\* error.message of an evaluator error
AjvMessage == "must match schema"

\* The violations the evaluator reports for a value under a registered schema.
AjvErrors(schemaKey, value) ==
    CASE schemaKey = "components/form.json" -> FormErrors(value)
      [] schemaKey = "workflow.json" -> WorkflowErrors(value)
      [] schemaKey = "schemas.json" -> MainSchemaErrors(value)
      [] OTHER -> <<>>

-----------------------------------------------------------------------------
(* ModuleValidator *)

\* addAjvErrors with the base path left out of the location.
RECURSIVE AddAjvErrorsWithoutBase(_, _, _)
AddAjvErrorsWithoutBase(ajvErrors, basePath, a) ==
    IF ajvErrors = <<>> THEN a
    ELSE AddAjvErrorsWithoutBase(Tail(ajvErrors), basePath,
            PushError(a, "schema_violation", InstancePath(Head(ajvErrors)), AjvMessage))

\* addAjvErrors: one schema_violation per evaluator error, at basePath followed by
\* the evaluator's instance path.
RECURSIVE AddAjvErrors(_, _, _)
AddAjvErrors(ajvErrors, basePath, a) ==
    IF ajvErrors = <<>> THEN a
    ELSE AddAjvErrors(Tail(ajvErrors), basePath,
            PushError(a, "schema_violation", basePath \o InstancePath(Head(ajvErrors)),
                      AjvMessage))

\* No concurrent calls: validate.errors is null, as after construction.
NoConcurrent == [call |-> <<>>, errors |-> <<>>]

\* validate.errors read after a suspension point: with calls in flight it holds
\* what the latest evaluation by any of them left there.
ValidateErrorsAfterSuspension(schemaKey, value) ==
    IF concurrent.call = <<>> THEN AjvErrors(schemaKey, value) ELSE concurrent.errors

\* validate(component) followed at once by the read of validate.errors: the
\* errors of this evaluation.
ValidateErrors(schemaKey, value) == AjvErrors(schemaKey, value)

\* The schema lookup with an unregistered type reported as an error.
ValidateAgainstSchemaStrict(component, componentPath, a) ==
    LET schemaKey == "components/" \o JsToString(Get(component, "component")) \o ".json"
    IN  IF schemaKey \notin DOMAIN schemas
        THEN PushError(a, "schema_violation", componentPath \o ".component",
                       "Unknown component type")
        ELSE IF schemas[schemaKey] = "broken" THEN Swallow(a)
        ELSE AddAjvErrors(AjvErrors(schemaKey, component), componentPath, a)

\* The schema lookup of validateNestedComponent: skipped when no schema is
\* registered under the key; a failure thrown by the evaluator is swallowed.
ValidateAgainstSchema(component, componentPath, a) ==
    LET schemaKey == "components/" \o JsToString(Get(component, "component")) \o ".json"
    IN  IF schemaKey \notin DOMAIN schemas THEN a
        ELSE IF schemas[schemaKey] = "broken" THEN Swallow(a)
        ELSE AddAjvErrors(ValidateErrors(schemaKey, component), componentPath, a)

RECURSIVE ValidateNestedComponent(_, _, _)
RECURSIVE ValidateChildrenLoop(_, _, _, _)
RECURSIVE ValidateComponentPropsLoop(_, _, _, _)

\* The children loop with the child's position counted from 1 in its path.
ValidateChildrenLoopFromOne(children, i, componentPath, a) ==
    IF i > Len(children.e) THEN a
    ELSE ValidateChildrenLoop(children, i + 1, componentPath,
            ValidateNestedComponent(children.e[i][2],
                componentPath \o ".children[" \o ToString(i) \o "]", a))

\* component.children.forEach((child, index) => validateNestedComponent(...))
ValidateChildrenLoop(children, i, componentPath, a) ==
    IF i > Len(children.e) THEN a
    ELSE ValidateChildrenLoop(children, i + 1, componentPath,
            ValidateNestedComponent(children.e[i][2],
                componentPath \o ".children[" \o ToString(i - 1) \o "]", a))

\* The props scan recursing into every object value, tagged or not.
ValidateComponentPropsLoopAllObjects(props, i, propsPath, a) ==
    IF i > Len(props.e) THEN a
    ELSE LET key == props.e[i][1]
             value == props.e[i][2]
         IN  ValidateComponentPropsLoop(props, i + 1, propsPath,
                IF IsObject(value)
                THEN ValidateNestedComponent(value, propsPath \o "." \o key, a)
                ELSE a)

\* for (const [key, value] of Object.entries(props))
ValidateComponentPropsLoop(props, i, propsPath, a) ==
    IF i > Len(props.e) THEN a
    ELSE LET key == props.e[i][1]
             value == props.e[i][2]
         IN  ValidateComponentPropsLoop(props, i + 1, propsPath,
                IF IsObject(value) /\ Truthy(Get(value, "component"))
                THEN ValidateNestedComponent(value, propsPath \o "." \o key, a)
                ELSE a)

ValidateComponentProps(props, propsPath, a) ==
    IF ~IsObject(props) THEN a
    ELSE ValidateComponentPropsLoop(props, 1, propsPath, a)

\* validateNestedComponent with the children of a node without a type tag
\* still walked: the return after the missing_property error is missing.
ValidateNestedComponentNoStop(component, componentPath, a) ==
    IF a.t \/ ~IsObject(component) THEN a
    ELSE IF ~Truthy(Get(component, "component"))
    THEN IF IsArray(Get(component, "children"))
         THEN ValidateChildrenLoop(Get(component, "children"), 1, componentPath,
                PushError(a, "missing_property", componentPath \o ".component",
                          "Component must have a component type"))
         ELSE PushError(a, "missing_property", componentPath \o ".component",
                        "Component must have a component type")
    ELSE LET a1 == ValidateAgainstSchema(component, componentPath, a)
             children == Get(component, "children")
             a2 == IF IsArray(children)
                   THEN ValidateChildrenLoop(children, 1, componentPath, a1)
                   ELSE a1
             props == Get(component, "props")
         IN  IF Truthy(props)
             THEN ValidateComponentProps(props, componentPath \o ".props", a2)
             ELSE a2

\* validateNestedComponent with the props scan placed before the children loop.
ValidateNestedComponentPropsFirst(component, componentPath, a) ==
    IF a.t \/ ~IsObject(component) THEN a
    ELSE IF ~Truthy(Get(component, "component"))
    THEN PushError(a, "missing_property", componentPath \o ".component",
                   "Component must have a component type")
    ELSE LET a1 == ValidateAgainstSchema(component, componentPath, a)
             props == Get(component, "props")
             a2 == IF Truthy(props)
                   THEN ValidateComponentProps(props, componentPath \o ".props", a1)
                   ELSE a1
             children == Get(component, "children")
         IN  IF IsArray(children)
             THEN ValidateChildrenLoop(children, 1, componentPath, a2)
             ELSE a2

ValidateNestedComponent(component, componentPath, a) ==
    IF ~IsObject(component) THEN a
    ELSE IF ~Truthy(Get(component, "component"))
    THEN PushError(a, "missing_property", componentPath \o ".component",
                   "Component must have a component type")
    ELSE LET a1 == ValidateAgainstSchema(component, componentPath, a)
             children == Get(component, "children")
             a2 == IF IsArray(children)
                   THEN ValidateChildrenLoop(children, 1, componentPath, a1)
                   ELSE a1
             props == Get(component, "props")
         IN  IF Truthy(props)
             THEN ValidateComponentProps(props, componentPath \o ".props", a2)
             ELSE a2

\* The deprecation mapping of ModuleValidator.checkDeprecatedProperties, in order.
ModuleDeprecations ==
    << <<"key", "Use \"name\" instead of \"key\"">>,
       <<"type", "Use \"fieldType\" instead of \"type\" for fields">> >>

\* checkDeprecatedProperties with the deprecation pushed to errors.
RECURSIVE CheckDeprecatedPropertiesAsErrors(_, _, _, _, _)
CheckDeprecatedPropertiesAsErrors(deprecations, i, obj, path, a) ==
    IF i > Len(deprecations) THEN a
    ELSE CheckDeprecatedPropertiesAsErrors(deprecations, i + 1, obj, path,
            IF Has(obj, deprecations[i][1])
            THEN PushError(a, "deprecated_property", path \o "." \o deprecations[i][1],
                           deprecations[i][2])
            ELSE a)

RECURSIVE CheckDeprecatedPropertiesLoop(_, _, _, _, _)
CheckDeprecatedPropertiesLoop(deprecations, i, obj, path, a) ==
    IF i > Len(deprecations) THEN a
    ELSE CheckDeprecatedPropertiesLoop(deprecations, i + 1, obj, path,
            IF Has(obj, deprecations[i][1])
            THEN PushWarning(a, "deprecated_property", path \o "." \o deprecations[i][1],
                             deprecations[i][2])
            ELSE a)

CheckDeprecatedProperties(obj, path, a) ==
    CheckDeprecatedPropertiesLoop(ModuleDeprecations, 1, obj, path, a)

\* validateComponent returning after the missing-name error, before the
\* deprecation check.
ValidateComponentNamedOnly(component, componentPath, a) ==
    IF ~IsObject(component)
    THEN PushError(a, "invalid_component", componentPath, "Component must be an object")
    ELSE IF ~Truthy(Get(component, "name"))
    THEN PushError(a, "missing_property", componentPath \o ".name",
                   "Component must have a name property")
    ELSE LET a2 == IF Truthy(Get(component, "layout"))
                   THEN ValidateNestedComponent(Get(component, "layout"),
                            componentPath \o ".layout", a)
                   ELSE a
         IN  CheckDeprecatedProperties(component, componentPath, a2)

ValidateComponent(component, componentPath, a) ==
    IF ~IsObject(component)
    THEN PushError(a, "invalid_component", componentPath, "Component must be an object")
    ELSE LET a1 == IF ~Truthy(Get(component, "name"))
                   THEN PushError(a, "missing_property", componentPath \o ".name",
                                  "Component must have a name property")
                   ELSE a
             a2 == IF Truthy(Get(component, "layout"))
                   THEN ValidateNestedComponent(Get(component, "layout"),
                            componentPath \o ".layout", a1)
                   ELSE a1
         IN  CheckDeprecatedProperties(component, componentPath, a2)

RECURSIVE ValidateComponents(_, _, _)
ValidateComponents(components, i, a) ==
    IF i > Len(components.e) THEN a
    ELSE ValidateComponents(components, i + 1,
            ValidateComponent(components.e[i][2],
                "components[" \o ToString(i - 1) \o "]", a))

\* The iteration of routes.forEach with `component` checked before `path`.
ValidateRouteComponentFirst(route, routePath, a) ==
    IF Nullish(route) THEN Throw(a)
    ELSE LET a1 == IF ~Truthy(Get(route, "component"))
                   THEN PushError(a, "missing_property", routePath \o ".component",
                                  "Route must have a component property")
                   ELSE a
         IN  IF ~Truthy(Get(route, "path"))
             THEN PushError(a1, "missing_property", routePath \o ".path",
                            "Route must have a path property")
             ELSE a1

\* One iteration of routes.forEach: route.path of a null route throws.
ValidateRoute(route, routePath, a) ==
    IF Nullish(route) THEN Throw(a)
    ELSE LET a1 == IF ~Truthy(Get(route, "path"))
                   THEN PushError(a, "missing_property", routePath \o ".path",
                                  "Route must have a path property")
                   ELSE a
         IN  IF ~Truthy(Get(route, "component"))
             THEN PushError(a1, "missing_property", routePath \o ".component",
                            "Route must have a component property")
             ELSE a1

RECURSIVE ValidateRoutes(_, _, _)
ValidateRoutes(routes, i, a) ==
    IF a.t \/ i > Len(routes.e) THEN a
    ELSE ValidateRoutes(routes, i + 1,
            ValidateRoute(routes.e[i][2], "routes[" \o ToString(i - 1) \o "]", a))

\* One iteration of entities.forEach: entity.name of a null entity throws.
ValidateEntity(entity, entityPath, a) ==
    IF Nullish(entity) THEN Throw(a)
    ELSE IF ~Truthy(Get(entity, "name"))
    THEN PushError(a, "missing_property", entityPath \o ".name",
                   "Entity must have a name property")
    ELSE a

RECURSIVE ValidateEntities(_, _, _)
ValidateEntities(entities, i, a) ==
    IF a.t \/ i > Len(entities.e) THEN a
    ELSE ValidateEntities(entities, i + 1,
            ValidateEntity(entities.e[i][2], "entities[" \o ToString(i - 1) \o "]", a))

\* The metadata checks as an else-if chain: the first missing field ends them.
ValidateModuleMetadataFirstOnly(module, a) ==
    IF ~Truthy(Get(module, "name"))
    THEN PushError(a, "missing_property", "module.name",
                   "Missing required property: module.name")
    ELSE IF ~Truthy(Get(module, "appModuleId"))
    THEN PushError(a, "missing_property", "module.appModuleId",
                   "Missing required property: module.appModuleId")
    ELSE IF ~Truthy(Get(module, "displayName"))
    THEN PushError(a, "missing_property", "module.displayName",
                   "Missing required property: module.displayName")
    ELSE a

\* The metadata checks testing presence (`in`) where the code tests truthiness.
ValidateModuleMetadataPresence(module, a) ==
    LET a1 == IF ~Has(module, "name")
              THEN PushError(a, "missing_property", "module.name",
                             "Missing required property: module.name") ELSE a
        a2 == IF ~Has(module, "appModuleId")
              THEN PushError(a1, "missing_property", "module.appModuleId",
                             "Missing required property: module.appModuleId") ELSE a1
    IN  IF ~Has(module, "displayName")
        THEN PushError(a2, "missing_property", "module.displayName",
                       "Missing required property: module.displayName") ELSE a2

\* The three metadata checks of validateModuleStructure.
ValidateModuleMetadata(module, a) ==
    LET a1 == IF ~Truthy(Get(module, "name"))
              THEN PushError(a, "missing_property", "module.name",
                             "Missing required property: module.name") ELSE a
        a2 == IF ~Truthy(Get(module, "appModuleId"))
              THEN PushError(a1, "missing_property", "module.appModuleId",
                             "Missing required property: module.appModuleId") ELSE a1
    IN  IF ~Truthy(Get(module, "displayName"))
        THEN PushError(a2, "missing_property", "module.displayName",
                       "Missing required property: module.displayName") ELSE a2

\* validateModuleStructure with the return after the `module` check moved below
\* the `components` check.
ValidateModuleStructureLateReturn(moduleData, a) ==
    IF Nullish(moduleData) THEN Throw(a)
    ELSE LET a0 == IF ~Truthy(Get(moduleData, "module"))
                   THEN PushError(a, "missing_property", "module",
                                  "Missing required property: module")
                   ELSE a
             a1 == IF ~Truthy(Get(moduleData, "components"))
                   THEN PushError(a0, "missing_property", "components",
                                  "Missing required property: components")
                   ELSE a0
         IN  IF ~Truthy(Get(moduleData, "module")) THEN a1
             ELSE ValidateModuleMetadata(Get(moduleData, "module"), a1)

ValidateModuleStructure(moduleData, a) ==
    IF Nullish(moduleData) THEN Throw(a)
    ELSE IF ~Truthy(Get(moduleData, "module"))
    THEN PushError(a, "missing_property", "module", "Missing required property: module")
    ELSE LET a1 == IF ~Truthy(Get(moduleData, "components"))
                   THEN PushError(a, "missing_property", "components",
                                  "Missing required property: components")
                   ELSE a
         IN  ValidateModuleMetadata(Get(moduleData, "module"), a1)

-----------------------------------------------------------------------------
(* WorkflowValidator *)

\* The location of WorkflowValidator.addAjvErrors without its `|| '/'`.
WorkflowErrorPathRaw(basePath, L) ==
    IF basePath # "" THEN basePath \o InstancePath(L) ELSE InstancePathSlice1(L)

\* errorPath || '/' of WorkflowValidator.addAjvErrors
WorkflowErrorPath(basePath, L) ==
    LET errorPath == IF basePath # "" THEN basePath \o InstancePath(L)
                     ELSE InstancePathSlice1(L)
    IN  IF errorPath = "" THEN "/" ELSE errorPath

RECURSIVE WorkflowAddAjvErrors(_, _, _)
WorkflowAddAjvErrors(ajvErrors, basePath, a) ==
    IF ajvErrors = <<>> THEN a
    ELSE WorkflowAddAjvErrors(Tail(ajvErrors), basePath,
            PushError(a, "schema_violation", WorkflowErrorPath(basePath, Head(ajvErrors)),
                      AjvMessage))

\* validateWorkflow without the evaluation of the root schema.
ValidateRootSchemaSkipped(workflowData, a) == a

\* The root-schema evaluation of validateWorkflow: ajv.getSchema('workflow.json')
\* is undefined when no such schema is registered and throws when it does not
\* compile.
ValidateRootSchema(workflowData, a) ==
    IF "workflow.json" \notin DOMAIN schemas THEN a
    ELSE IF schemas["workflow.json"] = "broken" THEN Throw(a)
    ELSE WorkflowAddAjvErrors(AjvErrors("workflow.json", workflowData), "", a)

RECURSIVE ValidateStep(_, _, _)
RECURSIVE ValidateStepsLoop(_, _, _, _)
RECURSIVE ValidateCasesLoop(_, _, _, _)

\* steps.forEach((nestedStep, index) => validateStep(nestedStep, `${prefix}[${index}]`))
ValidateStepsLoop(steps, i, prefix, a) ==
    IF a.t \/ i > Len(steps.e) THEN a
    ELSE ValidateStepsLoop(steps, i + 1, prefix,
            ValidateStep(steps.e[i][2], prefix \o "[" \o ToString(i - 1) \o "]", a))

\* step.cases.forEach((caseItem, caseIndex) => ...): caseItem.steps of a null
\* case throws.
ValidateCasesLoop(cases, i, stepPath, a) ==
    IF a.t \/ i > Len(cases.e) THEN a
    ELSE LET caseItem == cases.e[i][2]
         IN  ValidateCasesLoop(cases, i + 1, stepPath,
                IF Nullish(caseItem) THEN Throw(a)
                ELSE IF IsArray(Get(caseItem, "steps"))
                THEN ValidateStepsLoop(Get(caseItem, "steps"), 1,
                        stepPath \o ".cases[" \o ToString(i - 1) \o "].steps", a)
                ELSE a)

ValidateNestedSteps(step, stepPath, a) ==
    LET taskType == Get(step, "task")
        a1 == IF taskType = Str("foreach") /\ IsArray(Get(step, "steps"))
              THEN ValidateStepsLoop(Get(step, "steps"), 1, stepPath \o ".steps", a)
              ELSE a
        a2 == IF taskType = Str("switch") /\ IsArray(Get(step, "cases"))
              THEN ValidateCasesLoop(Get(step, "cases"), 1, stepPath, a1)
              ELSE a1
        a3 == IF ~a2.t /\ taskType = Str("switch") /\ Truthy(Get(step, "default"))
                 /\ IsArray(Get(Get(step, "default"), "steps"))
              THEN ValidateStepsLoop(Get(Get(step, "default"), "steps"), 1,
                       stepPath \o ".default.steps", a2)
              ELSE a2
    IN  IF ~a3.t /\ taskType = Str("while") /\ IsArray(Get(step, "steps"))
        THEN ValidateStepsLoop(Get(step, "steps"), 1, stepPath \o ".steps", a3)
        ELSE a3

ValidateStep(step, stepPath, a) ==
    IF ~IsObject(step) THEN PushError(a, "schema_violation", stepPath, "Step must be an object")
    ELSE IF ~Truthy(Get(step, "task"))
    THEN PushError(a, "missing_property", stepPath \o ".task",
                   "Step must have a task property")
    ELSE ValidateNestedSteps(step, stepPath, a)

ValidateActivity(activity, activityPath, a) ==
    IF ~IsObject(activity) THEN PushError(a, "invalid_activity", activityPath,
                                     "Activity must be an object")
    ELSE LET a1 == IF ~Truthy(Get(activity, "name"))
                   THEN PushError(a, "missing_property", activityPath \o ".name",
                                  "Activity must have a name property")
                   ELSE a
         IN  IF ~IsArray(Get(activity, "steps"))
             THEN PushError(a1, "missing_property", activityPath \o ".steps",
                            "Activity must have a steps array")
             ELSE ValidateStepsLoop(Get(activity, "steps"), 1, activityPath \o ".steps", a1)

RECURSIVE ValidateActivities(_, _, _, _)
ValidateActivities(activities, i, basePath, a) ==
    IF a.t \/ i > Len(activities.e) THEN a
    ELSE ValidateActivities(activities, i + 1, basePath,
            ValidateActivity(activities.e[i][2],
                basePath \o "[" \o ToString(i - 1) \o "]", a))

\* The deprecation mapping of WorkflowValidator.checkDeprecatedProperties is empty.
WorkflowDeprecations == <<>>

\* checkDeprecatedProperties of the workflow validator with the module mapping.
WorkflowCheckDeprecatedPropertiesOfModule(obj, path, a) ==
    CheckDeprecatedPropertiesLoop(ModuleDeprecations, 1, obj, path, a)

WorkflowCheckDeprecatedProperties(obj, path, a) ==
    CheckDeprecatedPropertiesLoop(WorkflowDeprecations, 1, obj, path, a)

\* validateWorkflowStructure with the return after the `workflow` check moved
\* below the `activities` check.
ValidateWorkflowStructureLateReturn(workflowData, a) ==
    IF Nullish(workflowData) THEN Throw(a)
    ELSE LET a0 == IF ~Truthy(Get(workflowData, "workflow"))
                   THEN PushError(a, "missing_property", "workflow",
                                  "Missing required property: workflow")
                   ELSE a
             a1 == IF ~Truthy(Get(workflowData, "activities"))
                   THEN PushError(a0, "missing_property", "activities",
                                  "Missing required property: activities")
                   ELSE a0
             workflow == Get(workflowData, "workflow")
             a2 == IF ~Truthy(Get(workflow, "workflowId"))
                   THEN PushError(a1, "missing_property", "workflow.workflowId",
                                  "Missing required property: workflow.workflowId")
                   ELSE a1
             a3 == IF ~Truthy(Get(workflow, "name"))
                   THEN PushError(a2, "missing_property", "workflow.name",
                                  "Missing required property: workflow.name")
                   ELSE a2
         IN  IF ~Truthy(Get(workflowData, "workflow")) THEN a1
             ELSE WorkflowCheckDeprecatedProperties(workflow, "workflow", a3)

ValidateWorkflowStructure(workflowData, a) ==
    IF Nullish(workflowData) THEN Throw(a)
    ELSE IF ~Truthy(Get(workflowData, "workflow"))
    THEN PushError(a, "missing_property", "workflow",
                   "Missing required property: workflow")
    ELSE LET a1 == IF ~Truthy(Get(workflowData, "activities"))
                   THEN PushError(a, "missing_property", "activities",
                                  "Missing required property: activities")
                   ELSE a
             workflow == Get(workflowData, "workflow")
             a2 == IF ~Truthy(Get(workflow, "workflowId"))
                   THEN PushError(a1, "missing_property", "workflow.workflowId",
                                  "Missing required property: workflow.workflowId")
                   ELSE a1
             a3 == IF ~Truthy(Get(workflow, "name"))
                   THEN PushError(a2, "missing_property", "workflow.name",
                                  "Missing required property: workflow.name")
                   ELSE a2
         IN  WorkflowCheckDeprecatedProperties(workflow, "workflow", a3)

-----------------------------------------------------------------------------
(* The result *)

\* errorsByType with every type that occurs counted once.
RECURSIVE ErrorsByTypeOnce(_, _, _)
ErrorsByTypeOnce(errors, i, counts) ==
    IF i > Len(errors) THEN counts
    ELSE LET type == errors[i].type
         IN  ErrorsByTypeOnce(errors, i + 1,
                IF type \in DOMAIN counts THEN counts ELSE counts @@ (type :> 1))

\* errors.forEach(error => errorsByType[error.type] = (errorsByType[error.type] || 0) + 1)
RECURSIVE ErrorsByType(_, _, _)
ErrorsByType(errors, i, counts) ==
    IF i > Len(errors) THEN counts
    ELSE LET type == errors[i].type
         IN  ErrorsByType(errors, i + 1,
                IF type \in DOMAIN counts
                THEN [counts EXCEPT ![type] = @ + 1]
                ELSE counts @@ (type :> 1))

NoCounts == [type \in {} |-> 0]

\* createResult with a warning making the result invalid.
CreateResultWarningsCount(file, errors, warnings) ==
    [isValid |-> Len(errors) = 0 /\ Len(warnings) = 0,
     errors |-> errors,
     warnings |-> IF includeWarnings THEN warnings ELSE <<>>,
     summary |-> [file |-> file,
                  status |-> IF Len(errors) = 0 /\ Len(warnings) = 0 THEN "PASSED" ELSE "FAILED",
                  errorCount |-> Len(errors),
                  warningCount |-> Len(warnings),
                  errorsByType |-> ErrorsByType(errors, 1, NoCounts)]]

\* createResult with the warnings included whatever the option.
CreateResultAllWarnings(file, errors, warnings) ==
    [isValid |-> Len(errors) = 0,
     errors |-> errors,
     warnings |-> warnings,
     summary |-> [file |-> file,
                  status |-> IF Len(errors) = 0 THEN "PASSED" ELSE "FAILED",
                  errorCount |-> Len(errors),
                  warningCount |-> Len(warnings),
                  errorsByType |-> ErrorsByType(errors, 1, NoCounts)]]

CreateResult(file, errors, warnings) ==
    [isValid |-> Len(errors) = 0,
     errors |-> errors,
     warnings |-> IF includeWarnings THEN warnings ELSE <<>>,
     summary |-> [file |-> file,
                  status |-> IF Len(errors) = 0 THEN "PASSED" ELSE "FAILED",
                  errorCount |-> Len(errors),
                  warningCount |-> Len(warnings),
                  errorsByType |-> ErrorsByType(errors, 1, NoCounts)]]

-----------------------------------------------------------------------------
(* The documents the model validates *)

MaxComponents == 2
MaxChildren == 3
MaxRoutes == 2
MaxEntities == 1
MaxActivities == 2
MaxSteps == 2
MaxCases == 2

SeqsUpTo(S, n) == UNION {[1..m -> S] : m \in 0..n}
ArraysUpTo(S, n) == {Arr(q) : q \in SeqsUpTo(S, n)}
Repeat(x, n) == [i \in 1..n |-> x]

\* Module metadata: absent, null, a scalar, or a mapping with each of name,
\* appModuleId and displayName absent, falsy or set.
ModuleBlocks ==
    {Undef, Null, Str("core")}
    \cup {Obj(<< <<"name", n>>, <<"appModuleId", m>>, <<"displayName", d>> >>) :
            n \in {Undef, Str(""), Str("orders")},
            m \in {Undef, Num("0"), Str("a1")},
            d \in {Undef, Null, Obj(<< <<"en-US", Str("Orders")>> >>)}}

FullModule ==
    Obj(<< <<"name", Str("orders")>>, <<"appModuleId", Str("a1")>>,
           <<"displayName", Obj(<< <<"en-US", Str("Orders")>> >>)>> >>)

\* Nested component nodes.
FormBad == Obj(<< <<"component", Str("form")>> >>)
NoType == Obj(<< <<"name", Str("n")>>, <<"children", Arr(<<FormBad>>)>>,
                 <<"props", Obj(<< <<"slot", FormBad>> >>)>> >>)
FormOk == Obj(<< <<"component", Str("form")>>, <<"name", Str("f")>> >>)
Mystery == Obj(<< <<"component", Str("totallyUnknownType")>> >>)
Nest == Obj(<< <<"component", Str("totallyUnknownType")>>,
               <<"children", Arr(<<FormOk, NoType>>)>>,
               <<"props", Obj(<< <<"footer", FormBad>> >>)>> >>)
Leaves == {NoType, FormBad, Nest, Null}

PropsValues ==
    {Undef, Str("p"), Arr(<<Nest>>),
     Obj(<< <<"title", Num("5")>>, <<"slot", FormBad>>, <<"panel", NoType>>,
            <<"items", Arr(<<FormBad>>)>>,
            <<"blank", Obj(<< <<"component", Str("")>>,
                              <<"children", Arr(<<FormBad>>)>> >>)>> >>)}

Layouts ==
    Leaves \cup {Str("grid"), Arr(<<FormBad>>)}
    \cup {Obj(<< <<"component", Str(t)>>, <<"name", Str("l")>>,
                 <<"children", c>>, <<"props", p>> >>) :
            t \in {"form", "totallyUnknownType", "broken"},
            c \in {Undef} \cup ArraysUpTo(Leaves \ {Null}, MaxChildren),
            p \in PropsValues}

NamedComponent == Obj(<< <<"name", Str("c")>> >>)

\* Elements of `components`.
TopShapes ==
    {Null, Str("c"), Arr(<<>>), Obj(<<>>), NamedComponent,
     Obj(<< <<"name", Str("c")>>, <<"key", Str("k")>>, <<"layout", Mystery>> >>),
     Obj(<< <<"type", Null>>, <<"layout", FormBad>> >>)}

Routes == {Null, Num("5"), Obj(<< <<"path", Str("/o")>> >>),
           Obj(<< <<"path", Str("/o")>>, <<"component", Str("c")>> >>)}
Entities == {Null, Obj(<<>>), Obj(<< <<"name", Str("Order")>> >>)}

ModuleDoc(m, c, r, e) ==
    Obj(<< <<"module", m>>, <<"components", c>>, <<"routes", r>>, <<"entities", e>> >>)

\* Every metadata block, with small collections.
MetadataDocs ==
    {ModuleDoc(m, c, r, e) :
        m \in ModuleBlocks,
        c \in {Undef, Str("none"), Arr(<<>>), Arr(<<Obj(<<>>)>>)},
        r \in {Undef, Arr(<<Obj(<<>>)>>)},
        e \in {Undef}}

\* Every shape of every element of `components`.
ComponentDocs ==
    {ModuleDoc(m, c, r, e) :
        m \in {Undef, FullModule},
        c \in ArraysUpTo(TopShapes, MaxComponents),
        r \in {Undef, Arr(<<Obj(<<>>)>>)},
        e \in {Undef}}

\* Every shape of every element of `routes` and `entities`.
SectionDocs ==
    {ModuleDoc(m, c, r, e) :
        m \in {Undef, FullModule},
        c \in {Undef},
        r \in {Undef, Str("none")} \cup ArraysUpTo(Routes, MaxRoutes),
        e \in {Undef} \cup ArraysUpTo(Entities, MaxEntities)}

\* Every layout, below each position of `components`.
TreeDocs ==
    {ModuleDoc(FullModule,
               Arr(Repeat(NamedComponent, j) \o <<Obj(<< <<"name", Str("c")>>, <<"layout", l>> >>)>>),
               Undef, Undef) :
        j \in 0..(MaxComponents - 1), l \in Layouts}

\* What yaml.load returns for a document that is not a mapping.
ScalarDocs == {Undef, Null, Str("text"), Arr(<<>>)}

\* A document with violations in the metadata and in every section.
OrderDocs ==
    {ModuleDoc(Obj(<< <<"name", Str("orders")>> >>),
               Arr(<<Str("c"), Obj(<< <<"layout", FormBad>> >>)>>),
               Arr(<<Obj(<< <<"path", Str("/o")>> >>), Obj(<<>>)>>),
               Arr(<<Obj(<<>>), Obj(<<>>)>>))}

ModuleDocs ==
    MetadataDocs \cup ComponentDocs \cup SectionDocs \cup TreeDocs \cup ScalarDocs
    \cup OrderDocs

\* Workflow metadata with the properties the module mapping deprecates.
KeyedWorkflow ==
    Obj(<< <<"workflowId", Str("1")>>, <<"name", Str("W")>>,
           <<"key", Str("k")>>, <<"type", Str("t")>> >>)

\* Workflow metadata.
WorkflowBlocks ==
    {Undef, Null, Str("wf")}
    \cup {Obj(<< <<"workflowId", i>>, <<"name", n>> >>) :
            i \in {Undef, Str("1")}, n \in {Undef, Str(""), Str("W")}}
    \cup {KeyedWorkflow}

FullWorkflow == Obj(<< <<"workflowId", Str("1")>>, <<"name", Str("W")>> >>)

\* Steps without nested steps of their own.
NoTask == Obj(<< <<"name", Str("s")>> >>)
LogStep == Obj(<< <<"task", Str("log")>>, <<"steps", Arr(<<NoTask>>)>> >>)
StepLeaves == {NoTask, LogStep}

Cases == {Null, Obj(<< <<"steps", Arr(<<NoTask>>)>> >>),
          Obj(<< <<"steps", Arr(<<LogStep, Str("s"), NoTask>>)>> >>)}

\* Control-flow steps.
LoopSteps ==
    {Obj(<< <<"task", Str(t)>>, <<"steps", l>> >>) :
        t \in {"foreach", "while", "Foreach"},
        l \in {Undef, Str("none")} \cup ArraysUpTo(StepLeaves, MaxSteps)}

SwitchSteps ==
    {Obj(<< <<"task", Str("switch")>>, <<"cases", c>>, <<"default", d>> >>) :
        c \in {Undef} \cup ArraysUpTo(Cases, MaxCases),
        d \in {Undef, Null, Obj(<< <<"steps", Arr(<<NoTask>>)>> >>)}}

NestedLoop ==
    Obj(<< <<"task", Str("while")>>,
           <<"steps", Arr(<<LogStep,
                Obj(<< <<"task", Str("switch")>>,
                       <<"cases", Arr(<<Obj(<< <<"steps", Arr(<<NoTask>>)>> >>)>>)>> >>)>>)>> >>)

Steps == StepLeaves \cup LoopSteps \cup SwitchSteps \cup {NestedLoop, Str("s"), Null, Arr(<<>>)}

NamedActivity == Obj(<< <<"name", Str("a")>>, <<"steps", Arr(<<>>)>> >>)

\* Elements of `activities`.
Activities ==
    {Null, Arr(<<>>), Obj(<< <<"name", Str("a")>>, <<"steps", Str("none")>> >>),
     Obj(<< <<"name", Str("a")>>, <<"steps", Obj(<<>>)>> >>),
     Obj(<< <<"steps", Arr(<<NoTask>>)>> >>)}

WorkflowDoc(w, a) == Obj(<< <<"workflow", w>>, <<"activities", a>> >>)

\* Every metadata block, with every shape of every element of `activities`.
WorkflowShapeDocs ==
    {WorkflowDoc(w, a) :
        w \in WorkflowBlocks,
        a \in {Undef, Str("none")} \cup ArraysUpTo(Activities, MaxActivities)}

\* Every step, at each position of the steps of each position of `activities`.
WorkflowStepDocs ==
    {WorkflowDoc(w, Arr(Repeat(NamedActivity, j)
                        \o <<Obj(<< <<"name", Str("a")>>,
                                    <<"steps", Arr(Repeat(LogStep, k) \o <<s>>)>> >>)>>)) :
        w \in {Undef, FullWorkflow}, j \in 0..(MaxActivities - 1),
        k \in 0..(MaxSteps - 1), s \in Steps}

WorkflowDocs == WorkflowShapeDocs \cup WorkflowStepDocs \cup ScalarDocs

\* The schema stores of the modelled WorkflowValidator: no root schema, one that
\* compiles, one whose compilation throws.
NoSchemas == [key \in {} |-> "ok"]
WorkflowSchemaStores ==
    {NoSchemas, "workflow.json" :> "ok", "workflow.json" :> "broken"}


-----------------------------------------------------------------------------
(* One call of validateModule / validateWorkflow *)

NoResult == [isValid |-> FALSE, errors |-> <<>>, warnings |-> <<>>,
             summary |-> [file |-> "", status |-> "PENDING", errorCount |-> 0,
                          warningCount |-> 0, errorsByType |-> NoCounts]]

\* The empty path is a path too: no file has it, so fs.existsSync is false.
FilePaths == {"modules/orders.yaml", ""}

\* "missing": fs.existsSync is false; "unreadable": fs.readFileSync throws;
\* "badyaml": yaml.load throws; "ok": yaml.load returns doc.
FileStatuses == {"missing", "unreadable", "badyaml", "ok"}

\* No cx-validate process: the validator is called through its API.
NoCli == [pc |-> "none", invalidOption |-> FALSE, help |-> FALSE, schemasPath |-> TRUE,
          files |-> <<>>, isReportMode |-> FALSE, reportWritable |-> TRUE,
          index |-> 0, hasErrors |-> FALSE, allResults |-> 0, exitCode |-> -1]

\* options.includeWarnings as the caller may pass it: not at all, true or false.
ValidatorOptions == {Undef, Bool("true"), Bool("false")}

\* includeWarnings: options.includeWarnings ?? true
IncludeWarningsOption(option) == IF Nullish(option) THEN TRUE ELSE Truthy(option)

\* The accumulators of validateModule when they are retained from one call to
\* the next.
CallLocalsRetained(last) == [last EXCEPT !.t = FALSE]

\* const errors = []; const warnings = []: the accumulators are locals of the
\* call, whatever the last call left.
CallLocals(last) == EmptyAcc

Init ==
    /\ validator \in {"module", "workflow"}
    /\ filePath \in FilePaths
    /\ fileStatus \in IF filePath = "" THEN {"missing"} ELSE FileStatuses
    /\ doc \in IF fileStatus # "ok" THEN {Undef}
               ELSE IF validator = "module" THEN ModuleDocs ELSE WorkflowDocs
    /\ schemas \in IF validator = "module" THEN {ModuleSchemas} ELSE WorkflowSchemaStores
    /\ includeWarnings \in {IncludeWarningsOption(o) : o \in ValidatorOptions}
    /\ pc = "start"
    /\ acc = CallLocals(EmptyAcc)
    /\ result = NoResult
    /\ callNo = 1
    /\ previous = [result |-> NoResult, includeWarnings |-> includeWarnings]
    /\ cli = NoCli
    /\ concurrent = NoConcurrent

config == <<validator, filePath, fileStatus, doc, schemas, includeWarnings, callNo, previous,
            cli, concurrent>>

\* return this.createResult(filePath, errors, warnings)
Return(a) ==
    /\ acc' = a
    /\ result' = CreateResult(filePath, a.e, a.w)
    /\ pc' = "done"

\* The next statement, or the catch block when the last one threw.
Continue(a, next) ==
    /\ acc' = a
    /\ pc' = IF a.t THEN "catch" ELSE next
    /\ UNCHANGED result

\* if (!fs.existsSync(filePath)) { errors.push(file_not_found); return ... }
CheckFileExists ==
    /\ pc = "start"
    /\ IF fileStatus = "missing"
       THEN Return(PushError(acc, "file_not_found", filePath, "File not found"))
       ELSE Continue(acc, "read")
    /\ UNCHANGED config

\* fs.readFileSync and yaml.load, with the inner catch of a YAML syntax error.
ReadAndParse ==
    /\ pc = "read"
    /\ CASE fileStatus = "unreadable" -> Continue(Throw(acc), "structure")
         [] fileStatus = "badyaml" -> Return(PushError(acc, "yaml_syntax_error", filePath, "YAML syntax error"))
         [] OTHER -> Continue(acc, "structure")
    /\ UNCHANGED config

ModuleStructureStep ==
    /\ pc = "structure" /\ validator = "module"
    /\ Continue(ValidateModuleStructure(doc, acc), "components")
    /\ UNCHANGED config

\* if (moduleData.components && Array.isArray(moduleData.components)) ...
ModuleComponentsStep ==
    /\ pc = "components"
    /\ Continue(IF IsArray(Get(doc, "components"))
                THEN ValidateComponents(Get(doc, "components"), 1, acc)
                ELSE acc, "routes")
    /\ UNCHANGED config

ModuleRoutesStep ==
    /\ pc = "routes"
    /\ Continue(IF IsArray(Get(doc, "routes"))
                THEN ValidateRoutes(Get(doc, "routes"), 1, acc)
                ELSE acc, "entities")
    /\ UNCHANGED config

ModuleEntitiesStep ==
    /\ pc = "entities"
    /\ Continue(IF IsArray(Get(doc, "entities"))
                THEN ValidateEntities(Get(doc, "entities"), 1, acc)
                ELSE acc, "return")
    /\ UNCHANGED config

WorkflowStructureStep ==
    /\ pc = "structure" /\ validator = "workflow"
    /\ Continue(ValidateWorkflowStructure(doc, acc), "rootschema")
    /\ UNCHANGED config

WorkflowRootSchemaStep ==
    /\ pc = "rootschema"
    /\ Continue(ValidateRootSchema(doc, acc), "activities")
    /\ UNCHANGED config

WorkflowActivitiesStep ==
    /\ pc = "activities"
    /\ Continue(IF IsArray(Get(doc, "activities"))
                THEN ValidateActivities(Get(doc, "activities"), 1, "activities", acc)
                ELSE acc, "return")
    /\ UNCHANGED config

ReturnResult ==
    /\ pc = "return"
    /\ Return(acc)
    /\ UNCHANGED config

\* catch (error: any) { errors.push(unexpected_error); return ... }
CatchUnexpected ==
    /\ pc = "catch"
    /\ Return(PushError(acc, "unexpected_error", filePath, "Unexpected error"))
    /\ UNCHANGED config

Next ==
    \/ CheckFileExists
    \/ ReadAndParse
    \/ ModuleStructureStep
    \/ ModuleComponentsStep
    \/ ModuleRoutesStep
    \/ ModuleEntitiesStep
    \/ WorkflowStructureStep
    \/ WorkflowRootSchemaStep
    \/ WorkflowActivitiesStep
    \/ ReturnResult
    \/ CatchUnexpected

Spec == Init /\ [][Next]_vars

\* The same document validated a second time, by the same validator or by a
\* second one constructed over the same schema store with its own includeWarnings
\* option. Nothing of the first call but the validator's fields is left.
ValidateAgain ==
    /\ pc = "done" /\ callNo = 1
    /\ previous' = [result |-> result, includeWarnings |-> includeWarnings]
    /\ callNo' = 2
    /\ includeWarnings' \in {IncludeWarningsOption(o) : o \in ValidatorOptions}
    /\ pc' = "start"
    /\ acc' = CallLocals(acc)
    /\ result' = NoResult
    /\ UNCHANGED <<validator, filePath, fileStatus, doc, schemas, cli, concurrent>>

NextRepeated == Next \/ ValidateAgain

SpecRepeated == Init /\ [][NextRepeated]_vars

-----------------------------------------------------------------------------
(* The command line: main of cli.ts, for the validate and report commands *)

MaxFiles == 3

\* What a file of the command line does: "missing": fs.existsSync is false;
\* "valid" / "invalid": validateFile resolves with isValid true / false;
\* "throws": validateFile throws (a validator that cannot be constructed).
FileKinds == {"missing", "valid", "invalid", "throws"}

InitCli ==
    /\ validator = "module"
    /\ filePath = "modules/orders.yaml"
    /\ fileStatus = "missing"
    /\ doc = Undef
    /\ schemas = ModuleSchemas
    /\ includeWarnings = TRUE
    /\ pc = "done"
    /\ acc = EmptyAcc
    /\ result = NoResult
    /\ callNo = 1
    /\ previous = [result |-> NoResult, includeWarnings |-> TRUE]
    /\ cli \in [pc : {"parse"}, invalidOption : BOOLEAN, help : BOOLEAN,
                 schemasPath : BOOLEAN, files : SeqsUpTo(FileKinds, MaxFiles),
                 isReportMode : BOOLEAN, reportWritable : BOOLEAN,
                 index : {0}, hasErrors : {FALSE}, allResults : {0}, exitCode : {-1}]
    /\ concurrent = NoConcurrent

validation == <<validator, filePath, fileStatus, doc, schemas, includeWarnings, pc, acc,
                result, callNo, previous, concurrent>>

\* process.exit(code)
Exit(code) == cli' = [cli EXCEPT !.pc = "exited", !.exitCode = code]

\* parseArgs: an unknown option or an invalid option value exits with 2.
ParseArgs ==
    /\ cli.pc = "parse"
    /\ IF cli.invalidOption THEN Exit(2) ELSE cli' = [cli EXCEPT !.pc = "main"]
    /\ UNCHANGED validation

\* main up to the loop: help and version exit with 0; no schemas directory and
\* no input file exit with 2.
MainChecks ==
    /\ cli.pc = "main"
    /\ IF cli.help THEN Exit(0)
       ELSE IF ~cli.schemasPath THEN Exit(2)
       ELSE IF Len(cli.files) = 0 THEN Exit(2)
       ELSE cli' = [cli EXCEPT !.pc = "loop", !.index = 1, !.hasErrors = FALSE]
    /\ UNCHANGED validation

\* One iteration of for (const file of files).
ValidateNextFile ==
    /\ cli.pc = "loop" /\ cli.index <= Len(cli.files)
    /\ LET file == cli.files[cli.index]
           validated == file \in {"valid", "invalid"}
       IN  cli' = [cli EXCEPT
                    !.index = @ + 1,
                    !.hasErrors = @ \/ file \in {"missing", "invalid", "throws"},
                    !.allResults = IF cli.isReportMode /\ validated THEN @ + 1 ELSE @]
    /\ UNCHANGED validation

\* After the loop: the report, whose writeFileSync may throw into main().catch,
\* then process.exit(hasErrors ? 1 : 0).
ReportAndExit ==
    /\ cli.pc = "loop" /\ cli.index > Len(cli.files)
    /\ IF cli.isReportMode /\ cli.allResults > 0 /\ ~cli.reportWritable
       THEN Exit(2)
       ELSE Exit(IF cli.hasErrors THEN 1 ELSE 0)
    /\ UNCHANGED validation

NextCli == ParseArgs \/ MainChecks \/ ValidateNextFile \/ ReportAndExit

SpecCli == InitCli /\ [][NextCli]_vars

-----------------------------------------------------------------------------
(* Two validateModule calls in flight on one ModuleValidator *)

\* The documents of the concurrent calls: layouts that violate the form schema,
\* satisfy it, or have no schema, and a document with errors in every section.
ConcurrentDocs ==
    {ModuleDoc(FullModule, Arr(<<Obj(<< <<"name", Str("c")>>, <<"layout", l>> >>)>>),
               Undef, Undef) :
        l \in {FormBad, FormOk, Nest,
               Obj(<< <<"component", Str("form")>>, <<"name", Str("f")>>,
                      <<"props", Str("p")>> >>)}}
    \cup OrderDocs

\* The nodes the walker evaluates against the form schema, in walk order.
RECURSIVE Evaluated(_)
RECURSIVE EvaluatedChildren(_, _)
RECURSIVE EvaluatedProps(_, _)
EvaluatedChildren(children, i) ==
    IF i > Len(children) THEN <<>>
    ELSE Evaluated(children[i][2]) \o EvaluatedChildren(children, i + 1)

EvaluatedProps(entries, i) ==
    IF i > Len(entries) THEN <<>>
    ELSE (IF IsObject(entries[i][2]) /\ Truthy(Get(entries[i][2], "component"))
          THEN Evaluated(entries[i][2]) ELSE <<>>) \o EvaluatedProps(entries, i + 1)

Evaluated(node) ==
    IF ~IsObject(node) \/ ~Truthy(Get(node, "component")) THEN <<>>
    ELSE (IF Get(node, "component") = Str("form") THEN <<node>> ELSE <<>>)
         \o EvaluatedChildren(Elements(node, "children"), 1)
         \o (IF IsObject(Get(node, "props"))
             THEN EvaluatedProps(Get(node, "props").e, 1) ELSE <<>>)

RECURSIVE EvaluatedComponents(_, _)
EvaluatedComponents(components, i) ==
    IF i > Len(components) THEN <<>>
    ELSE (IF IsObject(components[i][2]) THEN Evaluated(Get(components[i][2], "layout"))
          ELSE <<>>) \o EvaluatedComponents(components, i + 1)

\* validate.errors of the form schema after validateComponents walked a
\* document: what the last evaluation left, the former value when there was none.
ErrorsLeft(d, former) ==
    LET nodes == EvaluatedComponents(Elements(d, "components"), 1)
    IN  IF nodes = <<>> THEN former
        ELSE AjvErrors("components/form.json", nodes[Len(nodes)])

\* The accumulators after the stage p of validateModule on document d.
ModuleStage(p, d, a) ==
    CASE p = "structure" -> ValidateModuleStructure(d, a)
      [] p = "components" -> IF IsArray(Get(d, "components"))
                             THEN ValidateComponents(Get(d, "components"), 1, a) ELSE a
      [] p = "routes" -> IF IsArray(Get(d, "routes"))
                         THEN ValidateRoutes(Get(d, "routes"), 1, a) ELSE a
      [] p = "entities" -> IF IsArray(Get(d, "entities"))
                           THEN ValidateEntities(Get(d, "entities"), 1, a) ELSE a

StageAfter(p) ==
    CASE p = "structure" -> "components"
      [] p = "components" -> "routes"
      [] p = "routes" -> "entities"
      [] p = "entities" -> "return"

\* A call that parsed its document, with its own errors and warnings.
NewCall(d) == [doc |-> d, pc |-> "structure", acc |-> EmptyAcc, result |-> NoResult]

InitConcurrent ==
    /\ validator = "module"
    /\ filePath = "modules/orders.yaml"
    /\ fileStatus = "ok"
    /\ doc = Undef
    /\ schemas = ModuleSchemas
    /\ includeWarnings = TRUE
    /\ pc = "done"
    /\ acc = EmptyAcc
    /\ result = NoResult
    /\ callNo = 1
    /\ previous = [result |-> NoResult, includeWarnings |-> TRUE]
    /\ cli = NoCli
    /\ \E d1, d2 \in ConcurrentDocs :
            concurrent = [call |-> <<NewCall(d1), NewCall(d2)>>, errors |-> <<>>]

\* One call advances by a stage; the components stage leaves its last
\* evaluation in the shared validate.errors.
CallStep ==
    /\ \E c \in 1..Len(concurrent.call) :
        LET call == concurrent.call[c]
        IN  /\ call.pc # "done"
            /\ IF call.pc \in {"return", "catch"}
               THEN LET a == IF call.pc = "catch"
                             THEN PushError(call.acc, "unexpected_error", filePath,
                                            "Unexpected error")
                             ELSE call.acc
                    IN  concurrent' =
                            [concurrent EXCEPT
                                !.call[c] = [call EXCEPT !.acc = a, !.pc = "done",
                                                !.result = CreateResult(filePath, a.e, a.w)]]
               ELSE LET a == ModuleStage(call.pc, call.doc, call.acc)
                    IN  concurrent' =
                            [concurrent EXCEPT
                                !.call[c] = [call EXCEPT
                                                !.acc = a,
                                                !.pc = IF a.t THEN "catch"
                                                       ELSE StageAfter(call.pc)],
                                !.errors = IF call.pc = "components"
                                           THEN ErrorsLeft(call.doc, @) ELSE @]
    /\ UNCHANGED <<validator, filePath, fileStatus, doc, schemas, includeWarnings, pc, acc,
                   result, callNo, previous, cli>>

NextConcurrent == CallStep

SpecConcurrent == InitConcurrent /\ [][NextConcurrent]_vars

-----------------------------------------------------------------------------
(* Structural paths *)

\* render(path): field segments joined by ".", index segments as "[n]"
RECURSIVE RenderFrom(_, _)
RenderFrom(q, first) ==
    IF q = <<>> THEN ""
    ELSE (IF Head(q).t = "i" THEN "[" \o ToString(Head(q).i) \o "]"
          ELSE IF first THEN Head(q).f
          ELSE "." \o Head(q).f) \o RenderFrom(Tail(q), FALSE)

Render(q) == RenderFrom(q, TRUE)

\* Every value of a document with the structural path that reaches it: a key of
\* a mapping is a field segment, a position of a sequence an index segment, but
\* a position of a sequence found under `props` is the key Object.entries gives.
RECURSIVE Located(_, _, _)
Located(v, q, keyed) ==
    {[at |-> q, v |-> v]}
    \cup UNION {Located(v.e[i][2],
                        Append(q, IF v.k = "seq" /\ ~keyed THEN IndexSeg(i - 1)
                                  ELSE FieldSeg(v.e[i][1])),
                        v.k = "obj" /\ v.e[i][1] = "props") : i \in 1..Len(v.e)}

Done == pc = "done"
Parsed == fileStatus = "ok" /\ doc.k = "obj"

Error(type, path, message) == [type |-> type, path |-> path, message |-> message]
Range(q) == {q[i] : i \in 1..Len(q)}
Count(q, P(_)) == Cardinality({i \in 1..Len(q) : P(q[i])})

MissingModule == Error("missing_property", "module", "Missing required property: module")
MissingWorkflow == Error("missing_property", "workflow", "Missing required property: workflow")

\* The locations of the checks validateModuleStructure makes.
ModuleStructurePaths ==
    {"module", "components", "module.name", "module.appModuleId", "module.displayName"}

\* The locations of the checks validateWorkflowStructure makes.
WorkflowStructurePaths == {"workflow", "activities", "workflow.workflowId", "workflow.name"}

-----------------------------------------------------------------------------
(* Claims *)

\* C1 as stated: a module document with no `module` key yields exactly one
\* error, missing_property at `module`, whatever components, routes and
\* entities hold (checked on the calls in which nothing throws).
C1_ShortCircuitStopsAll ==
    (Done /\ validator = "module" /\ Parsed /\ ~Has(doc, "module") /\ ~acc.t)
        => result.errors = <<MissingModule>>

\* C1 amended: for a module document with no `module` key, validateModuleStructure
\* adds exactly one error, missing_property at `module`, and makes none of its
\* other checks; it is the first error of the result and the only one at a
\* location of the structure checks. The components, routes and entities that
\* are sequences are still validated and their errors follow it.
C1_ShortCircuitOfStructure ==
    (validator = "module" /\ Parsed /\ ~Has(doc, "module"))
        => /\ pc = "components" => acc.e = <<MissingModule>>
           /\ Done => /\ result.errors[1] = MissingModule
                      /\ \A i \in 2..Len(result.errors) :
                            result.errors[i].path \notin ModuleStructurePaths
                      /\ (IsArray(Get(doc, "components"))
                          /\ \E i \in 1..Len(Get(doc, "components").e) :
                                ~IsObject(Get(doc, "components").e[i][2]))
                            => \E e \in Range(result.errors) : e.type = "invalid_component"

C1_Witness ==
    /\ Done /\ validator = "module" /\ Parsed /\ ~Has(doc, "module") /\ ~acc.t
    /\ ~Has(doc, "routes")
    /\ result.errors[1] = MissingModule
    /\ \E e \in Range(result.errors) : e.path = "components[0].name"
    /\ \E e \in Range(result.errors) : e.type = "invalid_component"

\* C2 as stated: a workflow document with no `workflow` block yields
\* missing_property at `workflow` and nothing after it (checked on the calls in
\* which nothing throws).
C2_ShortCircuitStopsAll ==
    (Done /\ validator = "workflow" /\ Parsed /\ ~Has(doc, "workflow") /\ ~acc.t)
        => result.errors = <<MissingWorkflow>>

\* C2 amended: for a workflow document with no `workflow` block,
\* validateWorkflowStructure adds exactly one error, missing_property at
\* `workflow`, and makes none of its other checks; it is the first error of the
\* result and the only one at a location of the structure checks. The root
\* schema is still evaluated and the activities are still validated, and their
\* errors follow it.
C2_ShortCircuitOfStructure ==
    (validator = "workflow" /\ Parsed /\ ~Has(doc, "workflow"))
        => /\ pc = "rootschema" => acc.e = <<MissingWorkflow>>
           /\ Done => /\ result.errors[1] = MissingWorkflow
                      /\ \A i \in 2..Len(result.errors) :
                            result.errors[i].path \notin WorkflowStructurePaths
                      /\ ("workflow.json" \in DOMAIN schemas /\ schemas["workflow.json"] = "ok")
                            => result.errors[2] = Error("schema_violation", "/", AjvMessage)
                      /\ (IsArray(Get(doc, "activities")) /\ ~acc.t
                          /\ \E i \in 1..Len(Get(doc, "activities").e) :
                                ~IsObject(Get(doc, "activities").e[i][2]))
                            => \E e \in Range(result.errors) : e.type = "invalid_activity"

C2_Witness ==
    /\ Done /\ validator = "workflow" /\ Parsed /\ ~Has(doc, "workflow") /\ ~acc.t
    /\ \E e \in Range(result.errors) : e.type = "schema_violation" /\ e.path = "/"
    /\ \E e \in Range(result.errors) : e.type = "invalid_activity"

HasErrorAt(path) == \E e \in Range(result.errors) : e.path = path

SchemasCompile == \A key \in DOMAIN schemas : schemas[key] = "ok"

\* C3: no structural check aborts the validation: whatever the shape of an
\* element of `routes`, `entities` or a switch's `cases`, the checks of the later
\* elements and of the later sections run and their violations are in the result.
C3_NoCheckAborts ==
    (Done /\ Parsed)
        => /\ validator = "module" =>
                /\ \A i \in 1..Len(Elements(doc, "routes")) :
                     LET route == Elements(doc, "routes")[i][2]
                     IN  (~Nullish(route) /\ ~Truthy(Get(route, "path")))
                            => HasErrorAt("routes[" \o ToString(i - 1) \o "].path")
                /\ \A i \in 1..Len(Elements(doc, "entities")) :
                     LET entity == Elements(doc, "entities")[i][2]
                     IN  (~Nullish(entity) /\ ~Truthy(Get(entity, "name")))
                            => HasErrorAt("entities[" \o ToString(i - 1) \o "].name")
           /\ (validator = "workflow" /\ SchemasCompile) =>
                \A j \in 1..Len(Elements(doc, "activities")) :
                    LET activity == Elements(doc, "activities")[j][2]
                    IN  IsObject(activity) =>
                        \A k \in 1..Len(Elements(activity, "steps")) :
                            LET step == Elements(activity, "steps")[k][2]
                            IN  (IsObject(step) /\ Get(step, "task") = Str("switch")) =>
                                \A c \in 1..Len(Elements(step, "cases")) :
                                    LET caseItem == Elements(step, "cases")[c][2]
                                    IN  ~Nullish(caseItem) =>
                                        \A i \in 1..Len(Elements(caseItem, "steps")) :
                                            LET nested == Elements(caseItem, "steps")[i][2]
                                            IN  (IsObject(nested) /\ ~Truthy(Get(nested, "task")))
                                                => HasErrorAt("activities[" \o ToString(j - 1)
                                                        \o "].steps[" \o ToString(k - 1)
                                                        \o "].cases[" \o ToString(c - 1)
                                                        \o "].steps[" \o ToString(i - 1) \o "].task")

IsUnexpected(e) == e.type = "unexpected_error"
Unexpected == Error("unexpected_error", filePath, "Unexpected error")

\* C4 as stated: every call resolves with a result, and every failure thrown in
\* it, the schema evaluation of a component node included, is in the result as
\* exactly one unexpected_error.
C4_EveryFailureReported ==
    Done => Count(result.errors, IsUnexpected) = (IF acc.t THEN 1 ELSE 0) + acc.s

HasNull(q) == \E i \in 1..Len(q) : Nullish(q[i][2])

\* What makes validateModule throw outside the schema evaluation of a component.
ModuleThrows ==
    \/ fileStatus = "unreadable"
    \/ fileStatus = "ok" /\ Nullish(doc)
    \/ fileStatus = "ok" /\ ~Nullish(doc)
        /\ (HasNull(Elements(doc, "routes")) \/ HasNull(Elements(doc, "entities")))

\* C4 amended: every call resolves with a result and never rejects, and every
\* failure thrown outside the schema evaluation of a component node ends the
\* validation and is in the result as exactly one unexpected_error, the last
\* error; a failure thrown by the schema evaluation of a component node is
\* swallowed by validateNestedComponent: it adds no error and the validation
\* goes on.
C4_FailuresCaught ==
    /\ ~Done => \/ pc \in {"start", "read", "structure", "return", "catch"}
                 \/ (validator = "module" /\ pc \in {"components", "routes", "entities"})
                 \/ (validator = "workflow" /\ pc \in {"rootschema", "activities"})
    /\ Done =>
        /\ result # NoResult /\ result.summary.file = filePath
        /\ Count(result.errors, IsUnexpected) = (IF acc.t THEN 1 ELSE 0)
        /\ acc.t => result.errors[Len(result.errors)] = Unexpected
        /\ validator = "module" => (acc.t <=> ModuleThrows)
        /\ validator = "workflow" =>
            ((\/ fileStatus = "unreadable"
              \/ fileStatus = "ok" /\ Nullish(doc)
              \/ fileStatus = "ok" /\ ~SchemasCompile) => acc.t)

C4_Witness ==
    /\ Done /\ validator = "module" /\ acc.s > 0 /\ ~acc.t
    /\ HasErrorAt("components[0].layout.children[1].component")

C4_WitnessThrown ==
    /\ Done /\ validator = "module" /\ acc.t /\ Len(result.errors) > 2

\* C5: in every result isValid is true exactly when errors is empty and the
\* status is PASSED exactly when isValid; warnings do not change isValid.
C5_IsValidIffNoErrors ==
    Done => /\ result.isValid <=> result.errors = <<>>
            /\ result.summary.status = "PASSED" <=> result.isValid
            /\ result.summary.status \in {"PASSED", "FAILED"}
            /\ result.errors = acc.e

C5_Witness ==
    /\ Done /\ result.isValid /\ result.summary.status = "PASSED"
    /\ Len(result.warnings) > 0

\* The sum of f over S.
RECURSIVE Sum(_, _)
Sum(f, S) ==
    IF S = {} THEN 0
    ELSE LET x == CHOOSE x \in S : TRUE IN f[x] + Sum(f, S \ {x})

\* C6: errorCount is the number of errors, errorsByType has one entry for each
\* type that occurs, holding the number of errors of that type, and the entries
\* sum to errorCount.
C6_CountsByType ==
    Done =>
        LET byType == result.summary.errorsByType
        IN  /\ result.summary.errorCount = Len(result.errors)
            /\ DOMAIN byType = {e.type : e \in Range(result.errors)}
            /\ \A k \in DOMAIN byType :
                    byType[k] = Cardinality({i \in 1..Len(result.errors) :
                                                result.errors[i].type = k})
            /\ Sum(byType, DOMAIN byType) = result.summary.errorCount

C6_Witness ==
    /\ Done
    /\ Cardinality(DOMAIN result.summary.errorsByType) >= 3
    /\ \E k \in DOMAIN result.summary.errorsByType : result.summary.errorsByType[k] >= 3

MetadataFields == {"name", "appModuleId", "displayName"}

\* C7: for a module document with a `module` block, each of module.name,
\* module.appModuleId and module.displayName that is missing (absent, or falsy)
\* yields its own missing_property error at module.<field>, so there are as many
\* such errors as missing fields; a missing `components` adds missing_property
\* at `components` without suppressing them.
C7_MetadataChecksIndependent ==
    (Done /\ validator = "module" /\ Parsed /\ Truthy(Get(doc, "module")))
        => LET module == Get(doc, "module")
               missing == {f \in MetadataFields : ~Truthy(Get(module, f))}
               at(f) == {i \in 1..Len(result.errors) :
                            result.errors[i].path = "module." \o f}
           IN  /\ \A f \in MetadataFields :
                    /\ Cardinality(at(f)) = (IF f \in missing THEN 1 ELSE 0)
                    /\ \A i \in at(f) : result.errors[i].type = "missing_property"
                    /\ ~Has(module, f) => at(f) # {}
               /\ Cardinality(UNION {at(f) : f \in MetadataFields}) = Cardinality(missing)
               /\ ~Truthy(Get(doc, "components")) <=>
                    Error("missing_property", "components",
                          "Missing required property: components") \in Range(result.errors)

C7_Witness ==
    /\ Done /\ validator = "module" /\ Parsed /\ Truthy(Get(doc, "module"))
    /\ ~Has(Get(doc, "module"), "name") /\ ~Has(Get(doc, "module"), "appModuleId")
    /\ Has(Get(doc, "module"), "displayName") /\ Truthy(Get(Get(doc, "module"), "displayName"))
    /\ ~Has(doc, "components")
    /\ HasErrorAt("module.name") /\ HasErrorAt("module.appModuleId")
    /\ HasErrorAt("components") /\ ~HasErrorAt("module.displayName")

IsAjv(e) == e.type = "schema_violation" /\ e.message = AjvMessage

\* The field a missing_property error is about, by its message.
MissingField(message) ==
    CASE message = "Missing required property: module" -> "module"
      [] message = "Missing required property: components" -> "components"
      [] message = "Missing required property: module.name" -> "name"
      [] message = "Missing required property: module.appModuleId" -> "appModuleId"
      [] message = "Missing required property: module.displayName" -> "displayName"
      [] message = "Component must have a name property" -> "name"
      [] message = "Component must have a component type" -> "component"
      [] message = "Route must have a path property" -> "path"
      [] message = "Route must have a component property" -> "component"
      [] message = "Entity must have a name property" -> "name"
      [] message = "Missing required property: workflow" -> "workflow"
      [] message = "Missing required property: activities" -> "activities"
      [] message = "Missing required property: workflow.workflowId" -> "workflowId"
      [] message = "Missing required property: workflow.name" -> "name"
      [] message = "Activity must have a name property" -> "name"
      [] message = "Activity must have a steps array" -> "steps"
      [] message = "Step must have a task property" -> "task"
      [] OTHER -> ""

\* The location of a missing_property error is the structural path of a node of
\* the document followed by the required field, which the node lacks.
AtMissingField(e, located) ==
    LET f == MissingField(e.message)
    IN  \E n \in located :
            /\ ~Nullish(n.v)
            /\ ~Truthy(Get(n.v, f)) \/ (f = "steps" /\ ~IsArray(Get(n.v, f)))
            /\ e.path = Render(Append(n.at, FieldSeg(f)))

\* The location of a must-be-an-object error is the structural path of a value
\* of the document that is not an object.
AtNonObject(e, located) ==
    \E n \in located : ~IsObject(n.v) /\ e.path = Render(n.at)

\* Every violation of a structural check is located at the structural path of
\* the node it was emitted for, plus the offending field.
StructuralPathsCorrect ==
    LET located == Located(doc, <<>>, FALSE)
    IN  \A e \in Range(result.errors) :
            /\ e.type = "missing_property" => AtMissingField(e, located)
            /\ (e.type \in {"invalid_component", "invalid_activity"}
                \/ (e.type = "schema_violation" /\ ~IsAjv(e))) => AtNonObject(e, located)

\* The 3rd child of the layout of the 2nd top-level component, Undef if the
\* walker does not reach one.
ThirdChild ==
    LET components == Elements(doc, "components")
        layout == IF Len(components) >= 2 /\ IsObject(components[2][2])
                  THEN Get(components[2][2], "layout") ELSE Undef
        children == IF IsObject(layout) /\ Truthy(Get(layout, "component"))
                    THEN Elements(layout, "children") ELSE <<>>
    IN  IF Len(children) >= 3 THEN children[3][2] ELSE Undef

\* C8 as stated: every violation emitted for a nested node is located at the
\* structural path of the node plus the offending field, and a missing `name`
\* on the 3rd child of the layout of the 2nd top-level component yields an error
\* at components[1].layout.children[2].name.
C8_PathsWithNestedName ==
    (Done /\ Parsed)
        => /\ StructuralPathsCorrect
           /\ (validator = "module" /\ IsObject(ThirdChild) /\ ~Has(ThirdChild, "name"))
                => HasErrorAt("components[1].layout.children[2].name")

\* C8 amended: every violation emitted by a structural check is located at the
\* structural path of its node plus the offending field (a key of `props` is
\* always rendered `.key`). The walker requires the type tag of a nested
\* component, not its name: a missing `component` on the 3rd child of the layout
\* of the 2nd top-level component yields missing_property at
\* components[1].layout.children[2].component, and no error is ever located at
\* components[1].layout.children[2].name.
C8_StructuralPaths ==
    (Done /\ Parsed)
        => /\ StructuralPathsCorrect
           /\ validator = "module" =>
                /\ (IsObject(ThirdChild) /\ ~Truthy(Get(ThirdChild, "component")))
                    => Error("missing_property", "components[1].layout.children[2].component",
                             "Component must have a component type") \in Range(result.errors)
                /\ ~HasErrorAt("components[1].layout.children[2].name")

C8_Witness ==
    /\ Done /\ Parsed /\ validator = "module"
    /\ IsObject(ThirdChild) /\ ~Has(ThirdChild, "component")
    /\ HasErrorAt("components[1].layout.children[2].component")
    /\ HasErrorAt("components[1].layout.props.0.children[1].component")

\* C9 as stated: the location of every schema violation is the rendering of the
\* path of the violating value: the segments of the evaluator's instance
\* location appended to the base path, fields joined by ".", indices as "[n]"
\* (checked on the violations below the root of the document).
C9_SchemaLocationsRendered ==
    (Done /\ Parsed)
        => \A e \in Range(result.errors) :
                (IsAjv(e) /\ e.path # "/") => \E n \in Located(doc, <<>>, FALSE) : e.path = Render(n.at)

\* C9 amended: the location of a schema violation is the rendered base path of
\* the evaluated node immediately followed by the evaluator's instance location
\* as it stands, a JSON pointer (every segment preceded by "/"); for the root
\* evaluation of a workflow, whose base path is empty, it is the pointer without
\* its leading "/", and "/" when the pointer is empty.
C9_SchemaLocationsConcatenated ==
    (Done /\ Parsed)
        => \A e \in Range(result.errors) :
                IsAjv(e) =>
                    IF validator = "module"
                    THEN \E n \in Located(doc, <<>>, FALSE) :
                            /\ IsObject(n.v) /\ Get(n.v, "component") = Str("form")
                            /\ \E m \in Located(n.v, <<>>, FALSE) :
                                    e.path = Render(n.at) \o InstancePath(m.at)
                    ELSE \E m \in Located(doc, <<>>, FALSE) :
                            e.path = (IF m.at = <<>> THEN "/" ELSE InstancePathSlice1(m.at))

C9_Witness ==
    /\ Done /\ Parsed /\ validator = "module"
    /\ HasErrorAt("components[1].layout/props/title")
    /\ HasErrorAt("components[1].layout.children[2]")
    /\ HasErrorAt("components[1].layout.props.slot")

C9_WitnessWorkflow ==
    /\ Done /\ Parsed /\ validator = "workflow"
    /\ HasErrorAt("activities/1") /\ HasErrorAt("workflow")

\* A component node with its type tag replaced.
Retag(node, type) ==
    V("obj", "", [i \in 1..Len(node.e) |->
                    IF node.e[i][1] = "component" THEN <<"component", Str(type)>>
                    ELSE node.e[i]])

UnknownType(node) ==
    /\ node.k = "obj" /\ Truthy(Get(node, "component"))
    /\ ("components/" \o JsToString(Get(node, "component")) \o ".json") \notin DOMAIN schemas

\* A top-level component whose layout has an unregistered type, with the layout
\* retagged as a form.
WithFormLayout(component) ==
    IF IsObject(component) /\ component.k = "obj" /\ UnknownType(Get(component, "layout"))
    THEN V("obj", "", [i \in 1..Len(component.e) |->
                        IF component.e[i][1] = "layout"
                        THEN <<"layout", Retag(component.e[i][2], "form")>>
                        ELSE component.e[i]])
    ELSE component

UnknownLayouts ==
    {i \in 1..Len(Elements(doc, "components")) :
        LET component == Elements(doc, "components")[i][2]
        IN  component.k = "obj" /\ UnknownType(Get(component, "layout"))}

LayoutPath(i) == "components[" \o ToString(i - 1) \o "].layout"

\* The locations at which the schema of a layout's own type reports violations.
OwnSchemaPaths(i) ==
    {LayoutPath(i) \o InstancePath(m.at) :
        m \in Located(Get(Elements(doc, "components")[i][2], "layout"), <<>>, FALSE)}

\* C10: a component node whose type has no registered schema gets no
\* schema_violation and no error for the unknown type, and its children and
\* props are traversed exactly as for a registered type: the errors of the
\* components are those of the same components with the unknown layouts tagged
\* `form`, less the violations of the form schema by the layouts themselves.
C10_UnknownTypePermitted ==
    (validator = "module" /\ Parsed /\ pc = "routes" /\ UnknownLayouts # {})
        => LET components == Get(doc, "components")
               twins == V("seq", "", [i \in 1..Len(components.e) |->
                            <<components.e[i][1], WithFormLayout(components.e[i][2])>>])
               own(e) == /\ e.type = "schema_violation"
                         /\ \E i \in UnknownLayouts : e.path \in OwnSchemaPaths(i)
               before == ValidateModuleStructure(doc, EmptyAcc)
           IN  /\ \A e \in Range(acc.e) :
                    /\ ~own(e)
                    /\ \A i \in UnknownLayouts :
                            e.path \notin {LayoutPath(i), LayoutPath(i) \o ".component"}
               /\ acc.e = SelectSeq(ValidateComponents(twins, 1, before).e,
                                    LAMBDA e : ~own(e))

C10_Witness ==
    /\ validator = "module" /\ Parsed /\ pc = "routes" /\ UnknownLayouts = {2}
    /\ \E e \in Range(acc.e) : e.path = "components[1].layout.children[0]"
    /\ \E e \in Range(acc.e) : e.path = "components[1].layout.props.slot"
    /\ \E e \in Range(acc.e) : e.path = "components[1].layout.children[2].props.footer"

\* The switch steps validateActivity reaches directly, with their paths: step k
\* of activity j, when both are objects and the step's task is `switch`.
ReachedSwitches ==
    UNION {{[at |-> "activities[" \o ToString(j - 1) \o "].steps[" \o ToString(k - 1) \o "]",
             v |-> Elements(Elements(doc, "activities")[j][2], "steps")[k][2]] :
                k \in {k \in 1..Len(Elements(Elements(doc, "activities")[j][2], "steps")) :
                        LET step == Elements(Elements(doc, "activities")[j][2], "steps")[k][2]
                        IN  IsObject(step) /\ Get(step, "task") = Str("switch")}} :
           j \in {j \in 1..Len(Elements(doc, "activities")) :
                    IsObject(Elements(doc, "activities")[j][2])}}

InvalidStep(step) == ~IsObject(step) \/ ~Truthy(Get(step, "task"))

\* An invalid step at path has its violation: at path when it is no object, at
\* path.task when it has no task.
InvalidStepReported(step, path) ==
    /\ ~IsObject(step) => HasErrorAt(path)
    /\ (IsObject(step) /\ ~Truthy(Get(step, "task"))) => HasErrorAt(path \o ".task")

\* The steps of a case or of the default of a switch validateNestedSteps walks.
BranchSteps(branch) == IF Nullish(branch) THEN <<>> ELSE Elements(branch, "steps")

OneInvalidStep(branch) ==
    Len(BranchSteps(branch)) = 1 /\ InvalidStep(BranchSteps(branch)[1][2])

\* The locations of the violations of the first step of each of two cases and
\* of the default of the switch at path P.
ThreeBranchPaths(P) ==
    UNION {{P \o b \o ".steps[0]", P \o b \o ".steps[0].task"} :
            b \in {".cases[0]", ".cases[1]", ".default"}}

\* C11: every nested step of every cases[c].steps and of default.steps of a
\* switch step at P is validated, at P.cases[c].steps[i] and P.default.steps[i];
\* two cases with one invalid step each and a default with one invalid step
\* yield exactly three violations, one under each.
C11_SwitchComplete ==
    (Done /\ Parsed /\ validator = "workflow" /\ SchemasCompile)
        => \A sw \in ReachedSwitches :
            LET cases == Elements(sw.v, "cases")
                default == Get(sw.v, "default")
            IN  /\ \A c \in 1..Len(cases) :
                    \A i \in 1..Len(BranchSteps(cases[c][2])) :
                        InvalidStepReported(BranchSteps(cases[c][2])[i][2],
                            sw.at \o ".cases[" \o ToString(c - 1) \o "].steps["
                                  \o ToString(i - 1) \o "]")
                /\ \A i \in 1..Len(BranchSteps(default)) :
                        InvalidStepReported(BranchSteps(default)[i][2],
                            sw.at \o ".default.steps[" \o ToString(i - 1) \o "]")
                /\ (Len(cases) = 2 /\ OneInvalidStep(cases[1][2]) /\ OneInvalidStep(cases[2][2])
                    /\ OneInvalidStep(default))
                    => Cardinality({i \in 1..Len(result.errors) :
                            result.errors[i].path \in ThreeBranchPaths(sw.at)}) = 3

\* C12: validating the same document twice, with the same schema store and the
\* same options, on the same validator or on two, yields the same errors and
\* warnings in the same order and the same summary (the model has no timestamp).
C12_SecondCallSameResult ==
    (Done /\ callNo = 2 /\ includeWarnings = previous.includeWarnings)
        => result = previous.result

C12_Witness ==
    /\ Done /\ callNo = 2 /\ includeWarnings = previous.includeWarnings
    /\ Len(result.errors) >= 2 /\ Len(result.warnings) >= 1
    /\ result.errors = previous.result.errors

\* The validate command has processed its whole file list and exited.
ProcessedAll ==
    /\ cli.pc = "exited" /\ cli.index > Len(cli.files) /\ Len(cli.files) > 0
    /\ ~(cli.isReportMode /\ ~cli.reportWritable)

FilesOfKind(kind) == {i \in 1..Len(cli.files) : cli.files[i] = kind}

\* C13: once the validate command has processed its file list, the process
\* exits with 0 if every file passed, with 1 if a validated file has errors
\* (and every file exists), and with 2 if an input file does not exist.
C13_ExitCodes ==
    (ProcessedAll /\ FilesOfKind("throws") = {})
        => /\ FilesOfKind("valid") = DOMAIN cli.files => cli.exitCode = 0
           /\ (FilesOfKind("missing") = {} /\ FilesOfKind("invalid") # {}) => cli.exitCode = 1
           /\ FilesOfKind("missing") # {} => cli.exitCode = 2

IsFileError(e) == e.type \in {"file_not_found", "yaml_syntax_error"}

\* A file_not_found or yaml_syntax_error error is located at the file path, is
\* the only error of its result, and is produced before any structural check.
FileErrorsAlone ==
    /\ \A e \in Range(acc.e) :
            IsFileError(e) => /\ e.path = filePath
                              /\ acc.e = <<e>> /\ acc.w = <<>>
                              /\ pc = "done" /\ fileStatus \in {"missing", "badyaml"}
    /\ (Done /\ fileStatus \in {"missing", "badyaml"})
            => Len(result.errors) = 1 /\ IsFileError(result.errors[1])

\* C14 as stated: every error and warning of every result has a non-empty
\* location; a file_not_found or yaml_syntax_error error is located at the file
\* path, is the only error of its result and precedes every structural check.
C14_LocationsNonEmpty ==
    /\ FileErrorsAlone
    /\ Done => \A e \in Range(result.errors) \cup Range(result.warnings) : e.path # ""

\* C14 amended: every error and warning located in the document has a non-empty
\* location; file_not_found, yaml_syntax_error and unexpected_error are located
\* at the file path the caller gave, which is empty only for file_not_found on
\* an empty file path; a file_not_found or yaml_syntax_error error is the only
\* error of its result and precedes every structural check.
C14_LocationsNonEmptyOrFilePath ==
    /\ FileErrorsAlone
    /\ Done => /\ \A e \in Range(result.errors) :
                    /\ e.type = "unexpected_error" => e.path = filePath
                    /\ e.path = "" => (e.type = "file_not_found" /\ filePath = "")
               /\ \A w \in Range(result.warnings) : w.path # ""

C14_Witness ==
    /\ Done /\ validator = "workflow" /\ Parsed /\ filePath # ""
    /\ HasErrorAt("/") /\ HasErrorAt("activities[0].name")

ErrorTypes ==
    {"file_not_found", "yaml_syntax_error", "missing_property", "schema_violation",
     "invalid_component", "invalid_activity", "unexpected_error"}

TypesOf(q) == {q[i].type : i \in 1..Len(q)}

\* C15: the type of every error is one of the seven error types and the type of
\* every warning is deprecated_property, in the result and among the warnings
\* emitted; deprecated_property is never an error, invalid_component never in a
\* workflow result and invalid_activity never in a module result.
C15_ClosedTaxonomy ==
    /\ TypesOf(acc.e) \subseteq ErrorTypes
    /\ TypesOf(acc.w) \subseteq {"deprecated_property"}
    /\ Done => /\ TypesOf(result.errors) \subseteq ErrorTypes
               /\ TypesOf(result.warnings) \subseteq {"deprecated_property"}
               /\ validator = "workflow" => "invalid_component" \notin TypesOf(result.errors)
               /\ validator = "module" => "invalid_activity" \notin TypesOf(result.errors)

C15_Witness ==
    /\ Done /\ validator = "module"
    /\ {"invalid_component", "missing_property"} \subseteq TypesOf(result.errors)
    /\ TypesOf(result.warnings) = {"deprecated_property"}

\* C16: includeWarnings, true unless the caller passes false, only decides
\* whether the warnings are in the result: the result of the same document with
\* includeWarnings false has no warnings and the errors, isValid and errorCount
\* of the result with includeWarnings true, which holds every warning emitted.
C16_IncludeWarningsOnlyFilters ==
    /\ IncludeWarningsOption(Undef) /\ ~IncludeWarningsOption(Bool("false"))
    /\ Done => result.warnings = (IF includeWarnings THEN acc.w ELSE <<>>)
    /\ (Done /\ callNo = 2 /\ includeWarnings # previous.includeWarnings)
        => /\ result.errors = previous.result.errors
           /\ result.isValid = previous.result.isValid
           /\ result.summary.errorCount = previous.result.summary.errorCount
           /\ (IF includeWarnings THEN previous.result.warnings
               ELSE result.warnings) = <<>>

C16_Witness ==
    /\ Done /\ callNo = 2 /\ ~includeWarnings /\ previous.includeWarnings
    /\ previous.result.warnings # <<>> /\ result.warnings = <<>>
    /\ result.errors # <<>> /\ acc.w = previous.result.warnings

\* The nodes validateNestedComponent is called on and does not return from at
\* once, with their paths, from the node at path P down.
\* path.startsWith(prefix)
StartsWith(s, p) == Len(s) >= Len(p) /\ SubSeq(s, 1, Len(p)) = p

RECURSIVE Walked(_, _)
Walked(node, P) ==
    IF ~IsObject(node) THEN {}
    ELSE {[at |-> P, v |-> node]}
         \cup (IF ~Truthy(Get(node, "component")) THEN {}
               ELSE UNION {Walked(Elements(node, "children")[i][2],
                                  P \o ".children[" \o ToString(i - 1) \o "]") :
                            i \in 1..Len(Elements(node, "children"))}
                    \cup (IF ~IsObject(Get(node, "props")) THEN {}
                          ELSE UNION {LET value == Get(node, "props").e[i][2]
                                      IN  IF IsObject(value) /\ Truthy(Get(value, "component"))
                                          THEN Walked(value, P \o ".props." \o Get(node, "props").e[i][1])
                                          ELSE {} :
                                       i \in 1..Len(Get(node, "props").e)}))

\* The nodes walked in the layouts of the top-level components.
WalkedNodes ==
    UNION {LET component == Elements(doc, "components")[i][2]
           IN  IF IsObject(component) /\ Truthy(Get(component, "layout"))
               THEN Walked(Get(component, "layout"), LayoutPath(i))
               ELSE {} :
            i \in 1..Len(Elements(doc, "components"))}

\* C17: for an object node at P without a `component` field the walker emits
\* exactly one error, missing_property at P.component, and nothing else at or
\* below P: its schema is not looked up, its children and props not traversed.
C17_StopAtMissingType ==
    (Done /\ Parsed /\ validator = "module")
        => \A n \in WalkedNodes :
            ~Has(n.v, "component") =>
                /\ Cardinality({i \in 1..Len(result.errors) :
                        StartsWith(result.errors[i].path, n.at)}) = 1
                /\ Error("missing_property", n.at \o ".component",
                         "Component must have a component type") \in Range(result.errors)

C17_Witness ==
    /\ Done /\ Parsed /\ validator = "module"
    /\ \E n \in WalkedNodes :
            /\ ~Has(n.v, "component") /\ n.at = "components[1].layout.children[1]"
            /\ Len(Elements(n.v, "children")) > 0 /\ IsObject(Get(n.v, "props"))
    /\ HasErrorAt("components[1].layout.children[1].component")

ChildPath(P, i) == P \o ".children[" \o ToString(i - 1) \o "]"
PropPath(P, key) == P \o ".props." \o key

\* The phase of the walk of node n that a location belongs to: 0 for the node's
\* own schema violations, i for the subtree of children[i - 1], the number of
\* children plus j for the j-th entry of props, -1 for a location elsewhere.
Phase(n, path) ==
    LET children == Elements(n.v, "children")
        props == Get(n.v, "props")
        entries == IF IsObject(props) THEN props.e ELSE <<>>
    IN  IF ~StartsWith(path, n.at) THEN -1
        ELSE IF path = n.at \/ StartsWith(path, n.at \o "/") THEN 0
        ELSE IF \E i \in 1..Len(children) : StartsWith(path, ChildPath(n.at, i))
        THEN CHOOSE i \in 1..Len(children) : StartsWith(path, ChildPath(n.at, i))
        ELSE IF \E j \in 1..Len(entries) : StartsWith(path, PropPath(n.at, entries[j][1]))
        THEN Len(children)
             + (CHOOSE j \in 1..Len(entries) : StartsWith(path, PropPath(n.at, entries[j][1])))
        ELSE -1

Paths(errors) == [i \in 1..Len(errors) |-> errors[i].path]

\* C18: for every walked node with a type tag, the errors of its walk appear
\* in phase order: its own schema violations, then the subtree of children[0],
\* then of children[1], and so on, then the tagged props values in key
\* iteration order; no error of a later phase precedes one of an earlier phase.
C18_WalkerOrder ==
    (Done /\ Parsed /\ validator = "module")
        => LET paths == Paths(result.errors)
           IN  \A n \in WalkedNodes :
                Truthy(Get(n.v, "component")) =>
                    LET phases == [i \in 1..Len(paths) |-> Phase(n, paths[i])]
                    IN  \A i, j \in 1..Len(paths) :
                            (i < j /\ phases[i] >= 0 /\ phases[j] >= 0)
                                => phases[i] <= phases[j]

C18_Witness ==
    /\ Done /\ Parsed /\ validator = "module"
    /\ Paths(result.errors) =
            << "components[0].layout/props/title",
               "components[0].layout.children[0]",
               "components[0].layout.children[1].component",
               "components[0].layout.props.slot" >>

\* The position of the element a location starts with: section[i]...
IndexIn(path, section) ==
    CHOOSE i \in 0..Len(path) : StartsWith(path, section \o "[" \o ToString(i) \o "]")

\* The place of a location in the traversal of validateModule: the structural
\* checks, then components[i], then routes[i] with path before component,
\* then entities[i]; -1 for a location of no section.
Rank(path) ==
    IF path \in {"module", "components"} \/ StartsWith(path, "module.") THEN 0
    ELSE IF StartsWith(path, "components[") THEN 1000 + 10 * IndexIn(path, "components")
    ELSE IF StartsWith(path, "routes[")
    THEN 2000 + 10 * IndexIn(path, "routes")
         + (IF path = "routes[" \o ToString(IndexIn(path, "routes")) \o "].component"
            THEN 1 ELSE 0)
    ELSE IF StartsWith(path, "entities[") THEN 3000 + 10 * IndexIn(path, "entities")
    ELSE -1

Ordered(errors) ==
    LET ranks == [i \in 1..Len(errors) |-> Rank(errors[i].path)]
    IN  \A i, j \in 1..Len(errors) :
            (i < j /\ ranks[i] >= 0 /\ ranks[j] >= 0) => ranks[i] <= ranks[j]

IsPrefix(q, r) == Len(q) <= Len(r) /\ SubSeq(r, 1, Len(q)) = q

\* C19: the module error list is in traversal order: structural errors
\* (`components`, `module.*`), then the errors of components[0], components[1],
\* ..., then of the routes in array order with `path` before `component`, then
\* of the entities in array order; every step of the validation only appends
\* to the list, and the result carries the list as accumulated.
C19_TopLevelOrder ==
    /\ []((validator = "module" /\ Done)
            => (Ordered(result.errors) /\ result.errors = acc.e))
    /\ [][validator = "module" => IsPrefix(acc.e, acc.e')]_vars

C19_Witness ==
    /\ Done /\ Parsed /\ validator = "module"
    /\ Paths(result.errors) =
            << "module.appModuleId", "module.displayName",
               "components[0]", "components[1].name", "components[1].layout",
               "routes[0].component", "routes[1].path", "routes[1].component",
               "entities[0].name", "entities[1].name" >>

\* The locations of the schema violations a visit of node v at path q emits.
VisitLocations(v, q) ==
    LET schemaKey == "components/" \o JsToString(Get(v, "component")) \o ".json"
    IN  IF schemaKey \in DOMAIN schemas /\ schemas[schemaKey] = "ok"
        THEN {q \o InstancePath(L) : L \in Range(AjvErrors(schemaKey, v))}
        ELSE {}

\* The walked nodes with a type tag and an object `props`, with the entries.
PropsScans ==
    {n \in WalkedNodes : Truthy(Get(n.v, "component")) /\ IsObject(Get(n.v, "props"))}

NothingUnder(q) == \A e \in Range(result.errors) : ~StartsWith(e.path, q)

\* C20: the props scan is one hop deep. At a node at P with an object `props`
\* the walker visits, at P.props.<key>, each value that is an object with a
\* truthy `component` field and no other value: no error is located at or
\* under any other entry, whatever component-tagged objects lie inside it.
C20_PropsOneHop ==
    (Done /\ Parsed /\ validator = "module")
        => \A n \in PropsScans :
            LET entries == Get(n.v, "props").e
            IN  \A i \in 1..Len(entries) :
                    LET value == entries[i][2]
                        q == PropPath(n.at, entries[i][1])
                    IN  IF IsObject(value) /\ Truthy(Get(value, "component"))
                        THEN \A l \in VisitLocations(value, q) : HasErrorAt(l)
                        ELSE NothingUnder(q)

\* C20 as stated: every object value carrying a `component` field is visited,
\* so one whose `component` is empty is reported for its missing type tag.
C20_EveryTaggedValueVisited ==
    (Done /\ Parsed /\ validator = "module")
        => \A n \in PropsScans :
            LET entries == Get(n.v, "props").e
            IN  \A i \in 1..Len(entries) :
                    LET value == entries[i][2]
                        q == PropPath(n.at, entries[i][1])
                    IN  IF IsObject(value) /\ Has(value, "component")
                        THEN IF Truthy(Get(value, "component"))
                             THEN \A l \in VisitLocations(value, q) : HasErrorAt(l)
                             ELSE HasErrorAt(q \o ".component")
                        ELSE NothingUnder(q)

C20_Witness ==
    /\ Done /\ Parsed /\ validator = "module"
    /\ \E n \in PropsScans :
            /\ n.at = "components[0].layout"
            /\ {"slot", "panel", "items", "blank"}
                    \subseteq {Get(n.v, "props").e[i][1] : i \in 1..Len(Get(n.v, "props").e)}
    /\ HasErrorAt("components[0].layout.props.slot")
    /\ NothingUnder("components[0].layout.props.panel")
    /\ NothingUnder("components[0].layout.props.items")

\* The steps validateActivity hands to validateStep, with their paths: step k
\* of activity j, when the activity is an object with a `steps` sequence.
TopSteps ==
    UNION {{[at |-> "activities[" \o ToString(j - 1) \o "].steps[" \o ToString(k - 1) \o "]",
             v |-> Elements(Elements(doc, "activities")[j][2], "steps")[k][2]] :
                k \in 1..Len(Elements(Elements(doc, "activities")[j][2], "steps"))} :
           j \in {j \in 1..Len(Elements(doc, "activities")) :
                    Elements(doc, "activities")[j][2].k = "obj"}}

ErrorsUnder(q) == {i \in 1..Len(result.errors) : StartsWith(result.errors[i].path, q)}

OnlyErrorUnder(q, type, path) ==
    /\ Cardinality(ErrorsUnder(q)) = 1
    /\ \E e \in Range(result.errors) : e.type = type /\ e.path = path

\* The step s is handled as the dispatch rule says: a step that is no mapping
\* is a schema_violation at its path, a step without task a missing_property
\* at path.task, a foreach or while step has each element of its `steps`
\* validated at path.steps[i], and a step of any other task but switch is a
\* leaf with nothing reported at or under its path.
Dispatched(s) ==
    LET task == Get(s.v, "task")
        steps == Elements(s.v, "steps")
    IN  IF s.v.k # "obj" THEN OnlyErrorUnder(s.at, "schema_violation", s.at)
        ELSE IF ~Truthy(task) THEN OnlyErrorUnder(s.at, "missing_property", s.at \o ".task")
        ELSE IF task \in {Str("foreach"), Str("while")}
        THEN \A i \in 1..Len(steps) :
                LET q == s.at \o ".steps[" \o ToString(i - 1) \o "]"
                IN  /\ steps[i][2].k # "obj" => HasErrorAt(q)
                    /\ (steps[i][2].k = "obj" /\ ~Truthy(Get(steps[i][2], "task")))
                            => HasErrorAt(q \o ".task")
        ELSE IF task = Str("switch") THEN TRUE
        ELSE ErrorsUnder(s.at) = {}

NoAbort == \A e \in Range(result.errors) : e.type # "unexpected_error"

\* C21: every step handed to the step walker is dispatched on its task: nested
\* steps are visited only for foreach, while and switch; any other task is a
\* leaf; a non-object step is a schema_violation at its path and a step
\* without task a missing_property at path.task, both without descent.
C21_StepDispatch ==
    (Done /\ Parsed /\ validator = "workflow" /\ NoAbort)
        => \A s \in TopSteps : Dispatched(s)

ActivityPath(i) == "activities[" \o ToString(i - 1) \o "]"

\* A step at path q that the walker rejects has a violation, at q or at q.task.
StepValidated(step, q) ==
    (step.k # "obj" \/ ~Truthy(Get(step, "task")))
        => (HasErrorAt(q) \/ HasErrorAt(q \o ".task"))

\* The positions in the error list of the errors under the steps of an activity
\* follow the order of the steps.
StepsInOrder(P, n) ==
    \A j, k \in 1..n :
        j < k => \A x \in ErrorsUnder(P \o ".steps[" \o ToString(j - 1) \o "]"),
                    y \in ErrorsUnder(P \o ".steps[" \o ToString(k - 1) \o "]") : x < y

\* The activity at position i is validated as the rule says.
ActivityValidated(i) ==
    LET activity == Elements(doc, "activities")[i][2]
        P == ActivityPath(i)
        steps == Elements(activity, "steps")
    IN  IF activity.k # "obj" THEN OnlyErrorUnder(P, "invalid_activity", P)
        ELSE /\ ~Has(activity, "name") => HasErrorAt(P \o ".name")
             /\ IF ~IsArray(Get(activity, "steps"))
                THEN OnlyErrorUnder(P \o ".steps", "missing_property", P \o ".steps")
                ELSE /\ \A j \in 1..Len(steps) :
                            StepValidated(steps[j][2], P \o ".steps[" \o ToString(j - 1) \o "]")
                     /\ StepsInOrder(P, Len(steps))

\* C22: every activities[i] that is not an object gives exactly one
\* invalid_activity at activities[i] and nothing else; an object without name
\* gives missing_property at activities[i].name and is validated further;
\* `steps` that is no sequence gives missing_property at activities[i].steps
\* and no step is visited; otherwise every steps[j] is validated in order.
C22_ActivityValidation ==
    (Done /\ Parsed /\ validator = "workflow" /\ NoAbort)
        => \A i \in 1..Len(Elements(doc, "activities")) : ActivityValidated(i)

WarningsUnder(q) == {i \in 1..Len(acc.w) : StartsWith(acc.w[i].path, q)}

Silent(q) == ErrorsUnder(q) = {} /\ WarningsUnder(q) = {}

\* C23: an element of `components` that is not an object (a scalar, null or a
\* sequence) gives exactly one invalid_component at components[i] and nothing
\* else; a non-object value handed to the component walker as a layout or a
\* child gives no error and no warning.
C23_NonObjectNodes ==
    (Done /\ Parsed /\ validator = "module" /\ NoAbort)
        => /\ \A i \in 1..Len(Elements(doc, "components")) :
                LET component == Elements(doc, "components")[i][2]
                    P == "components[" \o ToString(i - 1) \o "]"
                IN  IF component.k # "obj"
                    THEN OnlyErrorUnder(P, "invalid_component", P) /\ WarningsUnder(P) = {}
                    ELSE Get(component, "layout").k # "obj" => Silent(LayoutPath(i))
           /\ \A n \in WalkedNodes :
                Truthy(Get(n.v, "component")) =>
                    \A k \in 1..Len(Elements(n.v, "children")) :
                        Elements(n.v, "children")[k][2].k # "obj"
                            => Silent(ChildPath(n.at, k))

DeprecationsAt(q) ==
    {i \in 1..Len(acc.w) : acc.w[i].type = "deprecated_property" /\ acc.w[i].path = q}

\* C24: for every top-level component object at components[i] and each field
\* f of the deprecation mapping (key, type), one deprecated_property warning at
\* components[i].f is emitted exactly when the object has the field, whatever
\* the other checks on the component found; it is a warning, never an error.
C24_DeprecatedProperties ==
    (Done /\ Parsed /\ validator = "module")
        => /\ \A i \in 1..Len(Elements(doc, "components")) :
                LET component == Elements(doc, "components")[i][2]
                    P == "components[" \o ToString(i - 1) \o "]"
                IN  component.k = "obj" =>
                        \A f \in {"key", "type"} :
                            Cardinality(DeprecationsAt(P \o "." \o f))
                                = IF Has(component, f) THEN 1 ELSE 0
           /\ \A e \in Range(result.errors) : e.type # "deprecated_property"
           /\ \A w \in Range(acc.w) : w.type = "deprecated_property"
           /\ includeWarnings => result.warnings = acc.w

C24_Witness ==
    /\ Done /\ Parsed /\ validator = "module"
    /\ DeprecationsAt("components[0].type") # {}
    /\ HasErrorAt("components[0].name")
    /\ HasErrorAt("components[0].layout")
    /\ DeprecationsAt("components[1].key") # {}

\* The positions of the errors the schema evaluator reported.
EvaluatorErrors == {i \in 1..Len(result.errors) : result.errors[i].message = AjvMessage}

\* The locations validateWorkflow gives the violations of the root schema.
RootLocations ==
    IF "workflow.json" \in DOMAIN schemas
    THEN LET violations == AjvErrors("workflow.json", doc)
         IN  [i \in 1..Len(violations) |-> WorkflowErrorPath("", violations[i])]
    ELSE <<>>

\* The workflow pipeline evaluates the whole document against the registered
\* root schema after the shape checks and before the activities are walked.
WorkflowRootEvaluated ==
    /\ Paths(SelectSeq(result.errors, LAMBDA e : e.message = AjvMessage)) = RootLocations
    /\ \A i \in EvaluatorErrors : result.errors[i].type = "schema_violation"
    /\ \A i \in 1..Len(result.errors), j \in EvaluatorErrors :
            /\ i < j => ~StartsWith(result.errors[i].path, "activities[")
            /\ (i > j /\ i \notin EvaluatorErrors)
                    => StartsWith(result.errors[i].path, "activities[")

\* The module pipeline evaluates the whole document against its registered
\* main schema.
ModuleRootEvaluated ==
    \A i \in 1..Len(AjvErrors("schemas.json", doc)) :
        \E e \in Range(result.errors) :
            /\ e.type = "schema_violation" /\ e.message = AjvMessage
            /\ ~StartsWith(e.path, "components[")

\* The module pipeline evaluates no schema but those of the component nodes.
ModuleRootNotEvaluated ==
    \A i \in EvaluatorErrors : StartsWith(result.errors[i].path, "components[")

\* C25 as stated: in both pipelines the whole document is evaluated against
\* the registered root schema and each violation is a schema_violation.
C25_BothPipelinesEvaluateRoot ==
    (Done /\ Parsed /\ NoAbort)
        => IF validator = "workflow" THEN WorkflowRootEvaluated ELSE ModuleRootEvaluated

\* C25: the workflow pipeline evaluates the whole document against the root
\* schema workflow.json, when one is registered, between the shape checks and
\* the walk of the activities, each violation a schema_violation; the module
\* pipeline makes no whole-document evaluation, whatever is registered.
C25_OnlyWorkflowEvaluatesRoot ==
    (Done /\ Parsed /\ NoAbort)
        => IF validator = "workflow" THEN WorkflowRootEvaluated ELSE ModuleRootNotEvaluated

C25_Witness ==
    /\ Done /\ Parsed /\ validator = "workflow" /\ NoAbort
    /\ Len(result.errors) >= 3
    /\ result.errors[1].path = "workflow"
    /\ result.errors[2].path = "/" /\ result.errors[2].type = "schema_violation"
    /\ result.errors[Len(result.errors)].path = "activities[0].steps[0].task"

\* The steps reachable from a step at path P through the bodies of foreach,
\* while and switch steps.
RECURSIVE ReachableSteps(_, _)
ReachableSteps(step, P) ==
    {[at |-> P, v |-> step]}
    \cup (IF ~IsObject(step) \/ ~Truthy(Get(step, "task")) THEN {}
          ELSE IF Get(step, "task") \in {Str("foreach"), Str("while")}
          THEN UNION {ReachableSteps(Elements(step, "steps")[i][2],
                                     P \o ".steps[" \o ToString(i - 1) \o "]") :
                        i \in 1..Len(Elements(step, "steps"))}
          ELSE IF Get(step, "task") = Str("switch")
          THEN UNION {UNION {ReachableSteps(BranchSteps(Elements(step, "cases")[c][2])[i][2],
                                P \o ".cases[" \o ToString(c - 1) \o "].steps["
                                  \o ToString(i - 1) \o "]") :
                               i \in 1..Len(BranchSteps(Elements(step, "cases")[c][2]))} :
                        c \in 1..Len(Elements(step, "cases"))}
               \cup UNION {ReachableSteps(BranchSteps(Get(step, "default"))[i][2],
                                P \o ".default.steps[" \o ToString(i - 1) \o "]") :
                             i \in 1..Len(BranchSteps(Get(step, "default")))}
          ELSE {})

AllReachableSteps == UNION {ReachableSteps(s.v, s.at) : s \in TopSteps}

ErrorsAt(locations) == {i \in 1..Len(result.errors) : result.errors[i].path \in locations}

\* Every reachable node that a visit rejects has the one violation of one visit:
\* a step that is no object or has no task, a component node without type tag.
VisitedOnce ==
    /\ validator = "workflow" =>
            \A s \in AllReachableSteps :
                (~IsObject(s.v) \/ ~Truthy(Get(s.v, "task")))
                    => Cardinality(ErrorsAt({s.at, s.at \o ".task"})) = 1
    /\ validator = "module" =>
            \A n \in WalkedNodes :
                ~Truthy(Get(n.v, "component"))
                    => Cardinality(ErrorsAt({n.at \o ".component"})) = 1

\* The stages of one validation call, in the order the call passes them.
Stages ==
    << "start", "read", "structure", "components", "rootschema", "routes",
       "activities", "entities", "return", "catch", "done" >>

Stage(p) == CHOOSE i \in 1..Len(Stages) : Stages[i] = p

\* C26: every validation of a finite document returns a result: each step of
\* the call moves it to a later stage, the last being the return; and every
\* component node reachable through layout, children and one-hop props, and
\* every step reachable through foreach, while and switch bodies, is visited
\* exactly once.
C26_TerminatesVisitingOnce ==
    /\ [](pc \in Range(Stages))
    /\ [][Stage(pc') > Stage(pc)]_vars
    /\ []((Done /\ Parsed /\ SchemasCompile) => VisitedOnce)

\* The result of validateModule on document d when no other call is in flight.
RECURSIVE RunAlone(_, _, _)
RunAlone(d, p, a) ==
    IF p = "return" THEN CreateResult(filePath, a.e, a.w)
    ELSE IF p = "catch"
    THEN CreateResult(filePath,
                      PushError(a, "unexpected_error", filePath, "Unexpected error").e, a.w)
    ELSE LET a1 == ModuleStage(p, d, a)
         IN  RunAlone(d, IF a1.t THEN "catch" ELSE StageAfter(p), a1)

LayoutOf(d) == Get(Elements(d, "components")[1][2], "layout")

\* C27: with two calls in flight on one validator, under every interleaving
\* of their stages each call resolves with the result it has when run alone:
\* a document with a valid form is valid, one with an invalid form has that one
\* violation, whatever the other call evaluated; no call changes the schema
\* store.
C27_ConcurrentCallsIndependent ==
    /\ [](\A c \in 1..Len(concurrent.call) :
            LET call == concurrent.call[c]
            IN  call.pc = "done" =>
                    /\ call.result = RunAlone(call.doc, "structure", EmptyAcc)
                    /\ LayoutOf(call.doc) = FormOk => call.result.isValid
                    /\ LayoutOf(call.doc) = FormBad =>
                            Paths(call.result.errors) = <<"components[0].layout">>)
    /\ [][schemas' = schemas]_vars

C27_Witness ==
    /\ Len(concurrent.call) = 2
    /\ concurrent.call[1].pc = "done" /\ concurrent.call[2].pc = "done"
    /\ LayoutOf(concurrent.call[1].doc) = FormBad
    /\ LayoutOf(concurrent.call[2].doc) = FormOk
    /\ concurrent.errors # <<>>
    /\ concurrent.call[2].result.isValid
    /\ ~concurrent.call[1].result.isValid

\* C28: in every returned result, summary.warningCount equals the length of
\* the returned warnings list, whether includeWarnings is true or false.
C28_WarningCountIsLength ==
    Done => result.summary.warningCount = Len(result.warnings)

\* The case the count and the list part: warnings emitted, none returned.
C28_CountWithoutWarnings ==
    /\ Done /\ ~includeWarnings
    /\ result.warnings = <<>>
    /\ result.summary.warningCount > 0

\* A required-field check the validation performs: the value v read for field
\* f, and the location p of the violation the check emits.
Check(v, f, p) == [v |-> v, f |-> f, p |-> p]

Item(v, key, i) == Elements(v, key)[i][2]
ItemPath(key, i) == key \o "[" \o ToString(i - 1) \o "]"

\* No element of v.key up to position i is null, whose property read throws.
NoNullUpTo(v, key, i) == \A j \in 1..i : ~Nullish(Item(v, key, j))

ModuleChecks ==
    LET module == Get(doc, "module")
    IN  {Check(module, "module", "module")}
        \cup (IF Truthy(module)
              THEN {Check(Get(doc, "components"), "components", "components"),
                    Check(Get(module, "name"), "name", "module.name"),
                    Check(Get(module, "appModuleId"), "appModuleId", "module.appModuleId"),
                    Check(Get(module, "displayName"), "displayName", "module.displayName")}
              ELSE {})
        \cup {Check(Get(Item(doc, "components", i), "name"), "name",
                    ItemPath("components", i) \o ".name") :
                i \in {i \in 1..Len(Elements(doc, "components")) :
                        IsObject(Item(doc, "components", i))}}
        \cup {Check(Get(Get(Item(doc, "components", i), "layout"), "component"), "component",
                    ItemPath("components", i) \o ".layout.component") :
                i \in {i \in 1..Len(Elements(doc, "components")) :
                        /\ IsObject(Item(doc, "components", i))
                        /\ IsObject(Get(Item(doc, "components", i), "layout"))}}
        \cup UNION {{Check(Get(Item(doc, "routes", i), "path"), "path",
                           ItemPath("routes", i) \o ".path"),
                     Check(Get(Item(doc, "routes", i), "component"), "component",
                           ItemPath("routes", i) \o ".component")} :
                i \in {i \in 1..Len(Elements(doc, "routes")) : NoNullUpTo(doc, "routes", i)}}
        \cup {Check(Get(Item(doc, "entities", i), "name"), "name",
                    ItemPath("entities", i) \o ".name") :
                i \in {i \in 1..Len(Elements(doc, "entities")) :
                        /\ NoNullUpTo(doc, "routes", Len(Elements(doc, "routes")))
                        /\ NoNullUpTo(doc, "entities", i)}}

\* The walk of the element throws.
ActivityThrows(activity) == ValidateActivity(activity, "", EmptyAcc).t
StepThrows(step) == ValidateStep(step, "", EmptyAcc).t

ActivityChecks(i) ==
    LET activity == Item(doc, "activities", i)
        at == ItemPath("activities", i)
    IN  {Check(Get(activity, "name"), "name", at \o ".name"),
         Check(Get(activity, "steps"), "steps", at \o ".steps")}
        \cup {Check(Get(Item(activity, "steps", k), "task"), "task",
                    at \o "." \o ItemPath("steps", k) \o ".task") :
                k \in {k \in 1..Len(Elements(activity, "steps")) :
                        /\ IsObject(Item(activity, "steps", k))
                        /\ \A l \in 1..(k - 1) : ~StepThrows(Item(activity, "steps", l))}}

WorkflowChecks ==
    LET workflow == Get(doc, "workflow")
    IN  {Check(workflow, "workflow", "workflow")}
        \cup (IF Truthy(workflow)
              THEN {Check(Get(doc, "activities"), "activities", "activities"),
                    Check(Get(workflow, "workflowId"), "workflowId", "workflow.workflowId"),
                    Check(Get(workflow, "name"), "name", "workflow.name")}
              ELSE {})
        \cup UNION {ActivityChecks(i) :
                i \in {i \in 1..Len(Elements(doc, "activities")) :
                        /\ ~ValidateRootSchema(doc, EmptyAcc).t
                        /\ IsObject(Item(doc, "activities", i))
                        /\ \A j \in 1..(i - 1) :
                                ~ActivityThrows(Item(doc, "activities", j))}}

Checks == IF validator = "module" THEN ModuleChecks ELSE WorkflowChecks

MissingAt(p) ==
    \E e \in Range(result.errors) : e.type = "missing_property" /\ e.path = p

Loaded == Done /\ fileStatus = "ok" /\ ~Nullish(doc)

\* The original statement of C29: every required-field check tests the
\* truthiness of its field and nothing else, so an empty sequence or an empty
\* mapping counts as present at every one of them.
C29_TruthinessOnly ==
    Loaded => \A c \in Checks : MissingAt(c.p) <=> ~Truthy(c.v)

\* C29: every required-field check the validation performs emits its
\* missing_property violation exactly when the field is falsy (absent, empty
\* string, 0, false, null); an empty sequence or mapping counts as present.
\* The one exception is an activity's steps, which must also be a sequence.
C29_RequiredFieldsTruthiness ==
    Loaded => \A c \in Checks :
                MissingAt(c.p) <=> (~Truthy(c.v) \/ (c.f = "steps" /\ ~IsArray(c.v)))

C29_Witness ==
    /\ Loaded /\ validator = "module"
    /\ Get(Get(doc, "module"), "name") = Str("")
    /\ Get(Get(doc, "module"), "appModuleId") = Num("0")
    /\ Get(Get(doc, "module"), "displayName") = Null
    /\ Get(doc, "components") = Arr(<<>>)
    /\ MissingAt("module.name") /\ MissingAt("module.appModuleId")
    /\ MissingAt("module.displayName") /\ ~MissingAt("components")

\* C30: a workflow validation never emits a warning: at every point of the
\* call the warnings accumulator is empty, and the result has an empty warnings
\* list and warningCount 0, whatever the document and the option.
C30_WorkflowNeverWarns ==
    validator = "workflow" =>
        /\ acc.w = <<>>
        /\ Done => (result.warnings = <<>> /\ result.summary.warningCount = 0)

\* A workflow whose metadata has `key` and `type`, deprecated in a module, has
\* gone through the deprecation check and has no warning.
C30_Witness ==
    /\ validator = "workflow" /\ Done /\ includeWarnings
    /\ Get(doc, "workflow") = KeyedWorkflow
    /\ result.errors # <<>>
    /\ result.warnings = <<>> /\ result.summary.warningCount = 0

=============================================================================
